---- MODULE Spec2Model ----
(***************************************************************************)
(* Verification model of the FRET core: interrupt-time decoding and the    *)
(* interrupt-shift mutator, the STG feedback engine, corpus pruning in     *)
(* SchedulerStatsStage and release/response pairing of the FreeRTOS job    *)
(* extractor.  Each subsystem has its own specification (SpecStg, SpecIrq, *)
(* SpecPrune, SpecPair) over its own variables; the variables of the other *)
(* subsystems stay at their initial value.  SpecRun is the fuzzing         *)
(* iteration: pre_exec, the capture hooks, post_exec with the refinement   *)
(* of the captured records, and the objective and feedback evaluation.     *)
(* SpecState compares and hashes refined kernel states.                    *)
(***************************************************************************)
EXTENDS Integers, Sequences, FiniteSets, TLC

VARIABLES
    \* ---- STG feedback engine (systemstate/stg.rs)
    fbs,              \* STGFeedbackState
    trace,            \* intervals of the run being executed (TraceData.intervals)
    read_trace,       \* memory reads per interval (TraceData.mem_reads)
    last_node_trace,  \* StgFeedback.last_node_trace
    last_edge_trace,  \* StgFeedback.last_edge_trace
    last_intervals,   \* StgFeedback.last_intervals
    ncap,             \* number of captures so far (all runs)
    stg_map,          \* STG_MAP (the non-zero entries) and MAX_STG_NUM
    \* ---- interrupt times (systemstate/helpers.rs, mutational.rs, fuzzer.rs)
    part,             \* bytes of the isr_i_times part of the current testcase
    min_iat,          \* minimum inter-arrival time (us) of the configured source
    meta,             \* STGNodeMetadata of the current testcase (intervals), if any
    maxtick,          \* IcHist worst icount
    mutate_stg,       \* build feature mutate_stg
    submitted,        \* isr_i_times part of the input handed to evaluate_input
    branch,           \* branch the last InterruptShiftStage iteration took
    offsets,          \* libafl_interrupt_offsets[i][0..libafl_num_interrupts[i]]
    interrupt_config, \* the (source, min-iat) pairs of the interrupt configuration
    run_input,        \* isr_<i>_times parts of the input the harness runs: source -> bytes
    libafl_interrupt_offsets, \* row -> the ticks written to the row since it was zeroed
    libafl_num_interrupts,    \* row -> the interrupt count of the source
    harness_state,    \* "idle", "done" or "panic": the harness loaded the schedule or panicked
    \* ---- corpus pruning (systemstate/report.rs)
    corpus,           \* the corpus: testcases in id order
    top_rated,        \* TopRatedsMetadata: the distinct ids of its map, if present
    currid,           \* corpus.current()
    has_hist,         \* IcHist is maintained (a dump path is configured)
    wort,             \* IcHist worst icount (0 without IcHist)
    next_id,          \* id the corpus gives to the next testcase
    last_removed,     \* ids removed by the last pruning pass
    passes,           \* pruning passes so far
    nadded,           \* inputs evaluated so far
    \* ---- job extraction (target_os/freertos/qemu_module.rs)
    releases,         \* get_releases(..): (tick, task) in trace order
    jobs_done,        \* JOBS_DONE: (tick, task) pushed by job_done_hook
    responses,        \* the responses split off JOBS_DONE for pairing
    job_spans,        \* the (release, response, task) pairs, once computed
    do_report,        \* the maybe_error flag of the pairing
    \* ---- one fuzzing iteration (target_os/freertos/mod.rs, qemu_module.rs)
    sysvec,           \* CURRENT_SYSTEMSTATE_VEC: the raw capture records
    jobs_run,         \* for each entry of JOBS_DONE, the run that pushed it
    qemu_icount,      \* instruction counter of the emulator (get_icount)
    run_phase,        \* "idle", "running" (after pre_exec) or "post" (after post_exec)
    nruns,            \* runs started so far
    trace_data,       \* FreeRTOSTraceMetadata of the state, if present
    host_panic,       \* the fuzzer process panicked
    max_reports,      \* SystraceErrorFeedback.max_reports
    dump_case,        \* SystraceErrorFeedback.dump_case
    solutions,        \* number of traces SystraceErrorFeedback made an objective
    select_task,      \* StgFeedback.select_task, if configured
    MEM_READ,         \* qemu_module.rs MEM_READ: None or the reads since the last capture
    nreads,           \* fuzz-input reads the hook has seen
    \* ---- comparison of kernel states (target_os/freertos/mod.rs)
    lhs,              \* a FreeRTOSSystemState, or an AtomicBasicBlock
    rhs,              \* another one
    verdict,          \* result of lhs == rhs and of hashing both, once computed
    \* ---- snippet stage (systemstate/mutational.rs: STGSnippetStage)
    snip_input,       \* the current testcase's input: its parts "bytes" and "isr_0_times"
    snip_jobs,        \* jobs of the testcase's STGNodeMetadata, if it has one
    snip_worst,       \* worst_task_jobs: job hash -> woet_bytes
    snip_result,      \* the input the stage built and whether it was rerun, once performed
    \* ---- generation scheduler (systemstate/schedulers.rs)
    gen_corpus,       \* the corpus: id -> exec time of the testcase
    gm,               \* GeneticMetadata, if present
    gen_count,        \* testcases added so far
    gen_panic,        \* next() panicked or failed an assertion
    gen_returned,     \* what the last next() did, if it returned
    gen_size          \* GenerationScheduler.gen_size

stgOnlyVars == <<trace, read_trace, last_node_trace, last_edge_trace, last_intervals, ncap, stg_map>>
harnessVars == <<interrupt_config, run_input, libafl_interrupt_offsets, libafl_num_interrupts, harness_state>>
irqVars == <<part, min_iat, meta, maxtick, mutate_stg, submitted, branch, offsets, harnessVars>>

pruneVars == <<corpus, top_rated, currid, has_hist, wort, next_id, last_removed, passes, nadded>>

pairVars == <<releases, jobs_done, responses, job_spans, do_report>>

runVars == <<sysvec, jobs_run, qemu_icount, run_phase, nruns, trace_data, host_panic, max_reports, dump_case,
             solutions, select_task, MEM_READ, nreads>>

cmpVars == <<lhs, rhs, verdict>>

snipVars == <<snip_input, snip_jobs, snip_worst, snip_result>>

genVars == <<gen_corpus, gm, gen_count, gen_panic, gen_returned, gen_size>>

vars == <<fbs, stgOnlyVars, irqVars, pruneVars, pairVars, runVars, cmpVars, snipVars, genVars>>

\* the variables outside of each subsystem
nonStgVars == <<irqVars, pruneVars, pairVars, runVars, cmpVars, snipVars, genVars>>
nonIrqVars == <<stgOnlyVars, pruneVars, pairVars, runVars, cmpVars, snipVars, genVars>>
nonPruneVars == <<fbs, stgOnlyVars, irqVars, pairVars, runVars, cmpVars, snipVars, genVars>>
nonPairVars == <<fbs, stgOnlyVars, irqVars, pruneVars, runVars, cmpVars, snipVars, genVars>>
nonRunVars == <<irqVars, pruneVars, cmpVars, snipVars, genVars>>
nonCmpVars == <<fbs, stgOnlyVars, irqVars, pruneVars, pairVars, runVars, snipVars, genVars>>
nonSnipVars == <<fbs, stgOnlyVars, irqVars, pruneVars, pairVars, runVars, cmpVars, genVars>>
nonGenVars == <<fbs, stgOnlyVars, irqVars, pruneVars, pairVars, runVars, cmpVars, snipVars>>

\* ------------------------------------------------------------------------
\* Generic helpers
\* ------------------------------------------------------------------------
Max(a, b) == IF a >= b THEN a ELSE b
Min(a, b) == IF a <= b THEN a ELSE b
Range(s) == {s[i] : i \in DOMAIN s}
None == <<>>

\* value of the variables of a subsystem that a specification does not exercise
StgIdle ==
    /\ trace = <<>>
    /\ read_trace = <<>>
    /\ last_node_trace = <<>>
    /\ last_edge_trace = <<>>
    /\ last_intervals = <<>>
    /\ ncap = 0
    /\ stg_map = [map |-> <<>>, max |-> 0]
HarnessIdle ==
    /\ interrupt_config = <<>>
    /\ run_input = <<>>
    /\ libafl_interrupt_offsets = <<>>
    /\ libafl_num_interrupts = <<>>
    /\ harness_state = "idle"
IrqIdle ==
    /\ HarnessIdle
    /\ part = <<>>
    /\ min_iat = 0
    /\ meta = None
    /\ maxtick = 0
    /\ mutate_stg = TRUE
    /\ submitted = None
    /\ branch = "none"
    /\ offsets = <<>>
PruneIdle ==
    /\ corpus = <<>>
    /\ top_rated = None
    /\ currid = None
    /\ has_hist = FALSE
    /\ wort = 0
    /\ next_id = 0
    /\ last_removed = {}
    /\ passes = 0
    /\ nadded = 0
PairIdle ==
    /\ releases = <<>>
    /\ jobs_done = <<>>
    /\ responses = <<>>
    /\ job_spans = None
    /\ do_report = FALSE
RunIdle ==
    /\ sysvec = <<>>
    /\ jobs_run = <<>>
    /\ qemu_icount = 0
    /\ run_phase = "idle"
    /\ nruns = 0
    /\ trace_data = None
    /\ host_panic = FALSE
    /\ max_reports = 10
    /\ dump_case = TRUE
    /\ solutions = 0
    /\ select_task = None
    /\ MEM_READ = None
    /\ nreads = 0
CmpIdle ==
    /\ lhs = None
    /\ rhs = None
    /\ verdict = None
SnipIdle ==
    /\ snip_input = None
    /\ snip_jobs = None
    /\ snip_worst = None
    /\ snip_result = None
GenIdle ==
    /\ gen_corpus = None
    /\ gm = None
    /\ gen_count = 0
    /\ gen_panic = FALSE
    /\ gen_returned = None
    /\ gen_size = 100

\* ------------------------------------------------------------------------
\* Bounds of the model
\* ------------------------------------------------------------------------
\* intervals captured over all runs of the STG model
MaxIntervals == 3

\* ========================================================================
\* STG feedback engine
\* ========================================================================

\* CaptureEvent tags
APIStart == "APIStart"
APIEnd == "APIEnd"
ISRStart == "ISRStart"
ISREnd == "ISREnd"
End == "End"
Undefined == "Undefined"

NoName == "-"

\* AtomicBasicBlock::default()
DefaultABB == [start |-> 0, ends |-> {}, level |-> 0, instance_id |-> 0, instance_name |-> NoName]

\* AtomicBasicBlock: PartialEq ignores instance_id
AbbEq(a, b) ==
    /\ a.start = b.start
    /\ a.ends = b.ends
    /\ a.level = b.level
    /\ a.instance_name = b.instance_name

\* A hash that also feeds the instance id (differs from the equality above)
AbbHashWithInstance(abb) == <<abb.start, abb.level, abb.instance_name, abb.ends, abb.instance_id>>

\* AtomicBasicBlock::get_hash: start, level, instance_name and the sorted ends;
\* the 64 bit digest is modelled collision-free as the tuple that is hashed
AbbHash(abb) == <<abb.start, abb.level, abb.instance_name, abb.ends>>

\* Kernel states of the model: the State value is reduced to its current task
TaskNames == {"T1", "T2"}
DefaultState == [task_name |-> ""]
SysState(n) == [task_name |-> n]
AllStates == {SysState(n) : n \in TaskNames \cup {"Start", "End"}}

\* digest of a list of task names
RECURSIVE ListCode(_)
ListCode(l) ==
    IF l = <<>> THEN 0
    ELSE 3 * ListCode(SubSeq(l, 1, Len(l) - 1)) + (IF l[Len(l)] = "T1" THEN 1 ELSE 2)

\* compute_hash over a State: collision-free numeric digest of the current
\* task and, for a state that carries them, of ready_list_after and read_invalid
compute_hash(s) ==
    (CASE s.task_name = "Start" -> 9001
       [] s.task_name = "End" -> 9002
       [] s.task_name = "T1" -> 101
       [] s.task_name = "T2" -> 102
       [] OTHER -> 0)
    + (IF "ready_list_after" \in DOMAIN s
       THEN 10000 * (1 + 2 * ListCode(s.ready_list_after) + (IF s.read_invalid THEN 1 ELSE 0))
       ELSE 0)

\* states_map of a trace: state hash -> State, keyed by compute_hash
StateTable == [h \in {compute_hash(s) : s \in AllStates} |->
                 CHOOSE s \in AllStates : compute_hash(s) = h]

\* STGNode::get_hash: state and abb
STGNodeHash(node) == <<node.state, AbbHash(node.abb)>>

\* PartialEq for STGNode: only the state hashes are compared
STGNodeEq(a, b) == a.state = b.state

\* ExecInterval::is_valid
is_valid(iv) == iv.start_tick # 0 \/ iv.end_tick # 0

\* ExecInterval::get_exec_time
get_exec_time(i) == i.end_tick - i.start_tick

\* STGEdge::is_abb_end
EdgeIsAbbEnd(e) == e.event \in {APIStart, APIEnd, ISREnd, End}

\* petgraph add_node that puts the node in front (every index shifts)
GraphAddNodeFront(nodes, node) == <<node>> \o nodes

\* petgraph DiGraph::add_node: the node is appended, its index is the old count
GraphAddNode(nodes, node) == Append(nodes, node)

\* petgraph DiGraph::add_edge
GraphAddEdge(edges, e) == Append(edges, e)

\* NodeIndex / EdgeIndex are 0-based positions
NodeAt(f, idx) == f.nodes[idx + 1]
EdgeAt(f, idx) == f.edges[idx + 1]
NodeIndices(f) == 0 .. (Len(f.nodes) - 1)
EdgeIndices(f) == 0 .. (Len(f.edges) - 1)

\* graph.edges_directed(src, Outgoing).find(|x| x.target() == dst)
FindEdge(f, src, dst) ==
    LET hits == {e \in EdgeIndices(f) : EdgeAt(f, e).source = src /\ EdgeAt(f, e).target = dst}
    IN IF hits = {} THEN None ELSE <<CHOOSE e \in hits : \A o \in hits : e <= o>>

\* STGFeedbackState::default
DefaultFbs ==
    LET entry_state == SysState("Start")
        exit_state == SysState("End")
        entry == [state |-> compute_hash(entry_state), abb |-> DefaultABB]
        exit == [state |-> compute_hash(exit_state), abb |-> DefaultABB]
        g1 == GraphAddNode(<<>>, entry)
        entrypoint == Len(g1) - 1
        g2 == GraphAddNode(g1, exit)
        exitpoint == Len(g2) - 1
    IN [ nodes |-> g2,
         edges |-> <<>>,
         systemstate_index |-> (entry.state :> entry_state) @@ (exit.state :> exit_state),
         state_abb_hash_index |-> (<<entry.state, AbbHash(entry.abb)>> :> entrypoint)
                                  @@ (<<exit.state, AbbHash(exit.abb)>> :> exitpoint),
         stgnode_index |-> (STGNodeHash(entry) :> entrypoint) @@ (STGNodeHash(exit) :> exitpoint),
         entrypoint |-> entrypoint,
         exitpoint |-> exitpoint,
         wort |-> 0,
         wort_per_aggegated_path |-> <<>>,
         wort_per_abb_path |-> <<>>,
         wort_per_stg_path |-> <<>> ]

\* execinterval_to_abb_instances: instance id -> (summed exec time, reads)
RECURSIVE InstanceTimeFrom(_, _, _, _)
InstanceTimeFrom(i, tr, rd, acc) ==
    IF i > Len(tr) THEN acc
    ELSE LET id == tr[i].abb.instance_id
             nxt == IF id \in DOMAIN acc
                    THEN [acc EXCEPT ![id] = <<acc[id][1] + get_exec_time(tr[i]), acc[id][2] \o rd[i]>>]
                    ELSE (id :> <<get_exec_time(tr[i]), rd[i]>>) @@ acc
         IN InstanceTimeFrom(i + 1, tr, rd, nxt)

execinterval_to_abb_instances(tr, rd) == InstanceTimeFrom(1, tr, rd, <<>>)

\* An edge weight that is overwritten by every traversal
WorstReplaceAlways(w, time) == TRUE

\* update_stg_interval: `if w.0 < *time` decides whether the worst record is replaced
WorstReplace(w, time) == w[1] < time

\* Feedback switches (feature feed_stg enabled)
INTEREST_NODE == TRUE
INTEREST_EDGE == TRUE
INTEREST_EDGE_WEIGHT == TRUE

\* One iteration of the interval loop of update_stg_interval.
\* acc = [fbs, node_trace, edge_trace, interesting, updated]
StgStep(acc, interval, instance_time, table) ==
    LET f == acc.fbs
        start_s == table[interval.start_state]
        start_h == compute_hash(start_s)
        f1 == [f EXCEPT !.systemstate_index = (start_h :> start_s) @@ @]
        node == [state |-> start_h, abb |-> interval.abb]
        h_node == STGNodeHash(node)
        present == h_node \in DOMAIN f1.stgnode_index
        nodes2 == GraphAddNode(f1.nodes, node)
        next_idx == IF present THEN f1.stgnode_index[h_node] ELSE Len(nodes2) - 1
        f2 == IF present THEN f1
              ELSE [f1 EXCEPT !.nodes = nodes2,
                              !.stgnode_index = (h_node :> next_idx) @@ @,
                              !.state_abb_hash_index = (<<start_h, AbbHash(node.abb)>> :> next_idx) @@ @]
        prev == acc.node_trace[Len(acc.node_trace)][1]
        e == FindEdge(f2, prev, next_idx)
        id == interval.abb.instance_id
        hasTime == id \in DOMAIN instance_time
        \* edge present: update its worst record
        old == IF e # None THEN EdgeAt(f2, e[1]).worst ELSE None
        replace == e # None /\ hasTime /\ old # None /\ WorstReplace(old, instance_time[id][1])
        newWorst == IF e # None /\ hasTime /\ (old = None \/ replace)
                    THEN instance_time[id] ELSE old
        f3present == [f2 EXCEPT !.edges[e[1] + 1].worst = newWorst]
        \* edge missing: insert it
        e0 == [source |-> prev, target |-> next_idx,
               event |-> interval.start_capture[1], name |-> interval.start_capture[2], worst |-> None]
        e1 == IF EdgeIsAbbEnd(e0) /\ hasTime THEN [e0 EXCEPT !.worst = instance_time[id]] ELSE e0
        edges2 == GraphAddEdge(f2.edges, e1)
        f3missing == [f2 EXCEPT !.edges = edges2]
        eidx == IF e # None THEN e[1] ELSE Len(edges2) - 1
    IN [ fbs |-> IF e # None THEN f3present ELSE f3missing,
         node_trace |-> Append(acc.node_trace, <<next_idx, interval.start_tick>>),
         edge_trace |-> Append(acc.edge_trace, <<eidx, interval.start_tick>>),
         interesting |-> \/ acc.interesting
                         \/ (~present /\ INTEREST_NODE)
                         \/ (replace /\ INTEREST_EDGE_WEIGHT)
                         \/ (e = None /\ INTEREST_EDGE),
         updated |-> acc.updated \/ ~present \/ e = None ]

RECURSIVE StgLoop(_, _, _, _, _)
StgLoop(i, tr, instance_time, table, acc) ==
    IF i > Len(tr) THEN acc
    ELSE StgLoop(i + 1, tr, instance_time, table, StgStep(acc, tr[i], instance_time, table))

\* A trace end that never connects the last node to the exit node
NoExitEdge(acc, tr, instance_time) == acc

\* update_stg_interval, "every path terminates at the end": the last walked node
\* gets an End edge into the exit node unless it already has one
EnsureExitEdge(acc, tr, instance_time) ==
    LET f == acc.fbs
        last == acc.node_trace[Len(acc.node_trace)][1]
        has == \E e \in EdgeIndices(f) : EdgeAt(f, e).source = last /\ EdgeAt(f, e).target = f.exitpoint
        id == tr[Len(tr)].abb.instance_id
        e0 == [source |-> last, target |-> f.exitpoint, event |-> End, name |-> "End", worst |-> None]
        e1 == IF id \in DOMAIN instance_time THEN [e0 EXCEPT !.worst = instance_time[id]] ELSE e0
        edges2 == GraphAddEdge(f.edges, e1)
    IN IF has THEN acc
       ELSE [acc EXCEPT !.fbs = [f EXCEPT !.edges = edges2],
                        !.edge_trace = Append(@, <<Len(edges2) - 1, tr[Len(tr)].start_tick>>),
                        !.interesting = @ \/ INTEREST_EDGE,
                        !.updated = TRUE]

\* an update that has no early return: the empty path gets its End edge too
UpdateWithoutEmptyCheck(tr, rd, table, f) ==
    LET acc0 == [fbs |-> f, node_trace |-> << <<f.entrypoint, 0>> >>, edge_trace |-> <<>>,
                 interesting |-> FALSE, updated |-> FALSE]
        e0 == [source |-> f.entrypoint, target |-> f.exitpoint, event |-> End, name |-> "End",
               worst |-> None]
    IN IF tr = <<>>
       THEN [acc0 EXCEPT !.fbs = [f EXCEPT !.edges = GraphAddEdge(@, e0)], !.updated = TRUE]
       ELSE LET instance_time == execinterval_to_abb_instances(tr, rd)
                acc1 == StgLoop(1, tr, instance_time, table, acc0)
                acc2 == EnsureExitEdge(acc1, tr, instance_time)
            IN [acc2 EXCEPT !.node_trace = Append(@, <<f.exitpoint, tr[Len(tr)].start_tick>>)]

\* StgFeedback::update_stg_interval
update_stg_interval(tr, rd, table, f) ==
    LET acc0 == [fbs |-> f, node_trace |-> << <<f.entrypoint, 0>> >>, edge_trace |-> <<>>,
                 interesting |-> FALSE, updated |-> FALSE]
    IN IF tr = <<>> THEN acc0
       ELSE LET instance_time == execinterval_to_abb_instances(tr, rd)
                acc1 == StgLoop(1, tr, instance_time, table, acc0)
                acc2 == EnsureExitEdge(acc1, tr, instance_time)
            IN [acc2 EXCEPT !.node_trace = Append(@, <<f.exitpoint, tr[Len(tr)].start_tick>>)]

\* ---- worst runtime per path (StgFeedback::is_interesting)
\* features feed_stg_pathhash, feed_stg_abbhash and feed_stg_aggregatehash enabled
INTEREST_PATH == TRUE
INTEREST_ABBPATH == TRUE
INTEREST_AGGREGATE == TRUE

\* StgFeedback::abbs_in_exec_order: the ABBs of the intervals that end an ABB
abbs_in_exec_order(tr) ==
    LET keep(iv) == iv.end_capture[1] \in {APIStart, APIEnd, End, ISREnd}
        sel == SelectSeq(tr, keep)
    IN [i \in 1 .. Len(sel) |-> sel[i].abb]

\* DefaultHasher over the sorted ends, without collisions: a number above
\* the addresses of the model, distinct for distinct sets of its ends
RECURSIVE EndsHash(_)
EndsHash(ends) ==
    IF ends = {} THEN 2 ^ 20
    ELSE LET x == CHOOSE y \in ends : TRUE
         IN 2 ^ (x \div 16) + EndsHash(ends \ {x})

\* Ordering as a number: -1 Less, 0 Equal, 1 Greater
Ordering(x, y) == IF x < y THEN -1 ELSE IF x > y THEN 1 ELSE 0

\* Ord for AtomicBasicBlock (cmp), the outcomes it can have: start, then
\* level, then end1 against end2.  end1 is the end of self if it has one
\* end, else the hash of its ends.  end2 is the hash of other's ends, but if
\* other has one end it is `*self.ends.iter().next().unwrap()`: the end of
\* self, any of its ends in the iteration order of the HashSet, or a panic if
\* self has none.
AbbCmpOutcomes(self, other) ==
    IF self.start # other.start
    THEN {[panic |-> FALSE, ord |-> Ordering(self.start, other.start)]}
    ELSE IF self.level # other.level
    THEN {[panic |-> FALSE, ord |-> Ordering(self.level, other.level)]}
    ELSE LET end1 == IF Cardinality(self.ends) = 1 THEN CHOOSE x \in self.ends : TRUE
                     ELSE EndsHash(self.ends)
         IN IF Cardinality(other.ends) # 1
            THEN {[panic |-> FALSE, ord |-> Ordering(end1, EndsHash(other.ends))]}
            ELSE IF self.ends = {} THEN {[panic |-> TRUE, ord |-> 0]}
            ELSE {[panic |-> FALSE, ord |-> Ordering(end1, end2)] : end2 \in self.ends}

\* cmp of the ABBs that are sorted: they hold exactly one end, the outcome is
\* the only one
AbbCmp(self, other) == (CHOOSE r \in AbbCmpOutcomes(self, other) : TRUE).ord

\* Vec::sort (stable): an element goes behind every element that is not greater
RECURSIVE AbbInsert(_, _)
AbbInsert(s, x) ==
    IF s = <<>> THEN <<x>>
    ELSE IF AbbCmp(s[Len(s)], x) <= 0 THEN Append(s, x)
    ELSE Append(AbbInsert(SubSeq(s, 1, Len(s) - 1), x), s[Len(s)])

RECURSIVE AbbSortFrom(_, _, _)
AbbSortFrom(s, i, acc) == IF i > Len(s) THEN acc ELSE AbbSortFrom(s, i + 1, AbbInsert(acc, s[i]))

abb_sort(s) == AbbSortFrom(s, 1, <<>>)

\* get_generic_hash of a Vec<AtomicBasicBlock>, and a Vec<AtomicBasicBlock> as
\* a map key: the hashed (and compared) fields of the elements, in order
AbbVecHash(v) == [i \in 1 .. Len(v) |-> AbbHash(v[i])]

\* key of wort_per_abb_path: "order of execution is relevant"
abbs_hash(tr) == AbbVecHash(abbs_in_exec_order(tr))
\* key of wort_per_aggegated_path: "aggegation by sorting"
aggregate_key(tr) == AbbVecHash(abb_sort(abbs_in_exec_order(tr)))

\* a map update that stores the runtime of every run
WortOverwrite(m, k, t) == (k :> t) @@ m

\* `if t > *x { *x = t }`, else insert
WortMax(m, k, t) ==
    IF k \in DOMAIN m
    THEN IF t > m[k] THEN [m EXCEPT ![k] = t] ELSE m
    ELSE (k :> t) @@ m

\* is_interesting after update_stg_interval: the worst overall runtime, then
\* the worst runtime per STG path, per ABB path and per aggregated path
update_worts(f, edgetrace, tr, last_runtime) ==
    LET f1 == [f EXCEPT !.wort = Max(@, last_runtime)]
        f2 == [f1 EXCEPT !.wort_per_stg_path = WortMax(@, edgetrace, last_runtime)]
        f3 == IF INTEREST_ABBPATH
              THEN [f2 EXCEPT !.wort_per_abb_path = WortMax(@, abbs_hash(tr), last_runtime)]
              ELSE f2
    IN IF INTEREST_AGGREGATE
       THEN [f3 EXCEPT !.wort_per_aggegated_path = WortMax(@, aggregate_key(tr), last_runtime)]
       ELSE f3

\* ---- the edge-index observer map (stg.rs: STG_MAP, set_observer_map)
STG_MAP_SIZE == 1048576
U16_MAX == 65535

\* STG_MAP[i]; entries never written are 0
MapAt(m, i) == IF i \in DOMAIN m.map THEN m.map[i] ELSE 0

\* for i in trace { .. }: raise MAX_STG_NUM, add one to the entry (saturating)
RECURSIVE CountFrom(_, _, _)
CountFrom(m, tr, k) ==
    IF k > Len(tr) THEN m
    ELSE LET i == tr[k]
             cnt == Min(MapAt(m, i) + 1, U16_MAX)
         IN  CountFrom([map |-> (i :> cnt) @@ m.map, max |-> Max(m.max, i)], tr, k + 1)

\* set_observer_map: the entries 0 .. MAX_STG_NUM - 1 are zeroed, then the
\* edges of the trace are counted
set_observer_map(m, tr) ==
    CountFrom([m EXCEPT !.map = [i \in DOMAIN m.map |-> IF i < m.max THEN 0 ELSE m.map[i]]], tr, 1)

\* ---- inputs of the STG model: the intervals a run can produce
\* ABB instances a trace may refer to.  The first two are two runtime instances of
\* one app ABB (equal up to instance_id), then an ISR ABB.
AbbApp0 == [start |-> 16, ends |-> {32}, level |-> 0, instance_id |-> 0, instance_name |-> "T1"]
AbbApp1 == [start |-> 16, ends |-> {32}, level |-> 0, instance_id |-> 1, instance_name |-> "T1"]
AbbIsr == [start |-> 80, ends |-> {96}, level |-> 2, instance_id |-> 3, instance_name |-> "xPortSysTickHandler"]
HashT1 == compute_hash(SysState("T1"))
HashT2 == compute_hash(SysState("T2"))
\* (start state, ABB, start capture) of the intervals the model draws from
IntervalKinds ==
    { <<HashT1, AbbApp0, <<APIEnd, "xQueueSend">> >>,
      <<HashT2, AbbApp0, <<ISREnd, "xPortSysTickHandler">> >>,
      <<HashT1, AbbApp1, <<APIEnd, "xQueueSend">> >>,
      <<HashT1, AbbIsr, <<ISRStart, "xPortSysTickHandler">> >> }
Durations == {1, 2}
\* bytes read from the input during an interval of the given length
ReadsOf(dur) == IF dur = 1 THEN <<>> ELSE << <<256, dur>> >>

\* The emulator executes up to the next capture: states2intervals emits one more
\* interval of the running trace (time ordered, ABB attached)
AppendInterval(tr, kind, dur) ==
    LET start == IF tr = <<>> THEN 0 ELSE tr[Len(tr)].end_tick
        \* the interval before ends with the capture that starts this one
        before == IF tr = <<>> THEN tr
                  ELSE [tr EXCEPT ![Len(tr)].end_capture = kind[3]]
    IN Append(before, [start_tick |-> start, end_tick |-> start + dur,
                       start_state |-> kind[1], start_capture |-> kind[3],
                       end_capture |-> <<End, "Breakpoint">>,
                       abb |-> kind[2]])

Capture(kind, dur) ==
    /\ ncap < MaxIntervals
    /\ trace' = AppendInterval(trace, kind, dur)
    /\ read_trace' = Append(read_trace, ReadsOf(dur))
    /\ ncap' = ncap + 1
    /\ UNCHANGED <<fbs, last_node_trace, last_edge_trace, last_intervals, stg_map, nonStgVars>>

\* StgFeedback::is_interesting: update the STG with the trace of the finished run
\* (no select_task), raise the worst overall runtime, remember the traces
Observe ==
    /\ \E r \in {update_stg_interval(trace, read_trace, StateTable, fbs)} :
       LET last_runtime == IF trace = <<>> THEN 0 ELSE trace[Len(trace)].end_tick
       IN /\ fbs' = update_worts(r.fbs, r.edge_trace, trace, last_runtime)
          /\ last_node_trace' = [i \in DOMAIN r.node_trace |-> r.node_trace[i][1]]
          /\ last_edge_trace' = [i \in DOMAIN r.edge_trace |-> r.edge_trace[i][1]]
          /\ stg_map' = set_observer_map(stg_map, [i \in DOMAIN r.edge_trace |-> r.edge_trace[i][1]])
    /\ last_intervals' = trace
    /\ trace' = <<>>
    /\ read_trace' = <<>>
    /\ UNCHANGED <<ncap, nonStgVars>>

StgInit ==
    /\ RunIdle
    /\ CmpIdle
    /\ SnipIdle
    /\ GenIdle
    /\ fbs = DefaultFbs
    /\ StgIdle
    /\ IrqIdle
    /\ PruneIdle
    /\ PairIdle

StgNext ==
    \/ \E kind \in IntervalKinds, dur \in Durations : Capture(kind, dur)
    \/ Observe

SpecStg == StgInit /\ [][StgNext]_vars

\* ------------------------------------------------------------------------
\* Properties of the STG feedback engine (SpecStg)
\* ------------------------------------------------------------------------
\* successors of a node and the nodes reachable from a set of nodes
StgSucc(f, n) == {EdgeAt(f, e).target : e \in {x \in EdgeIndices(f) : EdgeAt(f, x).source = n}}
RECURSIVE StgReach(_, _)
StgReach(f, S) ==
    LET S2 == S \cup UNION {StgSucc(f, n) : n \in S}
    IN IF S2 = S THEN S ELSE StgReach(f, S2)

\* the entry and exit fields point at the Start and End nodes of the graph
EntryExitExist ==
    /\ fbs.entrypoint \in NodeIndices(fbs)
    /\ fbs.exitpoint \in NodeIndices(fbs)
    /\ fbs.entrypoint # fbs.exitpoint
    /\ NodeAt(fbs, fbs.entrypoint) = [state |-> compute_hash(SysState("Start")), abb |-> DefaultABB]
    /\ NodeAt(fbs, fbs.exitpoint) = [state |-> compute_hash(SysState("End")), abb |-> DefaultABB]

\* every node and edge keeps its index; an edge keeps its end points and event
GraphOnlyGrows ==
    /\ fbs'.entrypoint = fbs.entrypoint
    /\ fbs'.exitpoint = fbs.exitpoint
    /\ Len(fbs'.nodes) >= Len(fbs.nodes)
    /\ Len(fbs'.edges) >= Len(fbs.edges)
    /\ \A n \in NodeIndices(fbs) : NodeAt(fbs', n) = NodeAt(fbs, n)
    /\ \A e \in EdgeIndices(fbs) :
          /\ EdgeAt(fbs', e).source = EdgeAt(fbs, e).source
          /\ EdgeAt(fbs', e).target = EdgeAt(fbs, e).target
          /\ EdgeAt(fbs', e).event = EdgeAt(fbs, e).event
          /\ EdgeAt(fbs', e).name = EdgeAt(fbs, e).name
    /\ \A h \in DOMAIN fbs.stgnode_index :
          h \in DOMAIN fbs'.stgnode_index /\ fbs'.stgnode_index[h] = fbs.stgnode_index[h]

\* C3: from the default feedback state on, and over every observed trace, the
\* entry and exit nodes exist, no inserted node or edge disappears and every
\* node (and edge) keeps the index it got when it was inserted.
C3_EntryExitStable == []EntryExitExist /\ [][GraphOnlyGrows]_vars

\* C3 witness: two traces have been observed and grew the graph beyond the
\* entry and exit node, the second one reusing nodes of the first
C3_Witness ==
    /\ Len(fbs.nodes) >= 4
    /\ Len(fbs.edges) >= 3
    /\ Len(last_intervals) = 1
    /\ trace = <<>>

\* C4: an edge that has a worst record keeps it unless the new ticks are
\* strictly greater; the ticks of an edge's worst record never decrease.
C4_WorstMonotone ==
    [][\A e \in EdgeIndices(fbs) :
          EdgeAt(fbs, e).worst # None =>
            /\ EdgeAt(fbs', e).worst # None
            /\ EdgeAt(fbs', e).worst[1] >= EdgeAt(fbs, e).worst[1]
            /\ (EdgeAt(fbs', e).worst # EdgeAt(fbs, e).worst =>
                  EdgeAt(fbs', e).worst[1] > EdgeAt(fbs, e).worst[1])]_vars

\* C4 witness: the last observed run walked an edge in fewer ticks than the
\* worst record the edge already had, and the record was kept
C4_Witness ==
    /\ Len(last_intervals) = 1
    /\ get_exec_time(last_intervals[1]) = 1
    /\ Len(last_edge_trace) >= 1
    /\ EdgeAt(fbs, last_edge_trace[1]).worst = <<2, ReadsOf(2)>>

\* C5: once the graph has an edge every node reachable from the entry node
\* (the entry node included) has a path to the exit node, and after a
\* non-empty trace the node of the last interval has an edge into the exit node.
C5_PathsEndAtExit ==
    /\ fbs.edges # <<>> =>
          \A n \in StgReach(fbs, {fbs.entrypoint}) : fbs.exitpoint \in StgReach(fbs, {n})
    /\ last_intervals # <<>> =>
          LET k == Len(last_intervals)
              last == last_node_trace[k + 1]
          IN /\ Len(last_node_trace) = k + 2
             /\ NodeAt(fbs, last).state = last_intervals[k].start_state
             /\ AbbEq(NodeAt(fbs, last).abb, last_intervals[k].abb)
             /\ fbs.exitpoint \in StgSucc(fbs, last)
             /\ last_node_trace[k + 2] = fbs.exitpoint

\* C5 witness: a two interval trace was observed; its first node reaches the
\* exit only through the node of the last interval
C5_Witness ==
    /\ Len(last_intervals) = 2
    /\ last_node_trace[2] # last_node_trace[3]
    /\ fbs.exitpoint \notin StgSucc(fbs, last_node_trace[2])
    /\ fbs.exitpoint \in StgSucc(fbs, last_node_trace[3])

\* (state hash, ABB) pairs of a trace that have no node in the graph f
NewPairs(f, tr) ==
    {<<tr[i].start_state, AbbHash(tr[i].abb)>> : i \in DOMAIN tr}
      \ {<<NodeAt(f, n).state, AbbHash(NodeAt(f, n).abb)>> : n \in NodeIndices(f)}

\* at most one node per (state hash, ABB) pair, ABBs compared by their equality
OneNodePerPair ==
    \A i, j \in NodeIndices(fbs) :
        (NodeAt(fbs, i).state = NodeAt(fbs, j).state /\ AbbEq(NodeAt(fbs, i).abb, NodeAt(fbs, j).abb))
          => i = j

\* the walk of the last trace visits, per interval, the node of its pair
WalkFollowsPairs ==
    \A k \in DOMAIN last_intervals :
        /\ NodeAt(fbs, last_node_trace[k + 1]).state = last_intervals[k].start_state
        /\ AbbEq(NodeAt(fbs, last_node_trace[k + 1]).abb, last_intervals[k].abb)

\* an observed trace inserts one node per unseen pair and none for a seen one,
\* and the state map keeps every entry it had
ObserveSharesNodes ==
    /\ Len(fbs'.nodes) = Len(fbs.nodes)
                         + (IF trace' = <<>> THEN Cardinality(NewPairs(fbs, trace)) ELSE 0)
    /\ \A h \in DOMAIN fbs.systemstate_index :
          h \in DOMAIN fbs'.systemstate_index
          /\ fbs'.systemstate_index[h] = fbs.systemstate_index[h]

\* C6: the graph holds at most one node per (state hash, ABB) pair, an
\* interval whose pair was seen before is walked through the existing node
\* without inserting one, and the state-hash -> State map only gains entries.
C6_SharedNodes == [](OneNodePerPair /\ WalkFollowsPairs) /\ [][ObserveSharesNodes]_vars

\* C6 witness: the last run executed the second runtime instance of an ABB in
\* a known state and was walked through the node made for the first instance
C6_Witness ==
    /\ Len(last_intervals) = 1
    /\ last_intervals[1].abb = AbbApp1
    /\ NodeAt(fbs, last_node_trace[2]).abb = AbbApp0
    /\ Len(fbs.nodes) = 3

\* ========================================================================
\* Interrupt times: decoding, the harness and the interrupt-shift mutator
\* ========================================================================

FIRST_INT == 200000
MAX_NUM_INTERRUPT == 128
DO_NUM_INTERRUPT == 128
\* QEMU_ISNS_PER_USEC = 31.25 as a fraction
QEMU_ISNS_PER_USEC_NUM == 3125
QEMU_ISNS_PER_USEC_DEN == 100
\* QEMU_ISNS_PER_USEC as usize
QEMU_ISNS_PER_USEC_USIZE == QEMU_ISNS_PER_USEC_NUM \div QEMU_ISNS_PER_USEC_DEN
\* largest tick of the model; it stands for u32::MAX (ticks of the model stay
\* below 2^31, the top byte of an encoded tick below 128)
TICK_MAX == (2^30 - 1) * 2 + 1

\* number of ticks in the buffers and of the ticks a randomisation generates
MaxTimes == 2

\* (config.1 as f32 * QEMU_ISNS_PER_USEC) as u32: the product is truncated
MinIatTicks(iat) == (iat * QEMU_ISNS_PER_USEC_NUM) \div QEMU_ISNS_PER_USEC_DEN

\* u32::from_le_bytes and u32::to_le_bytes
from_le_bytes(b) == b[1] + 256 * b[2] + 65536 * b[3] + 16777216 * b[4]
to_le_bytes(t) == <<t % 256, (t \div 256) % 256, (t \div 65536) % 256, (t \div 16777216) % 256>>

\* u32 saturating arithmetic on the ticks of the model
SatAdd(a, b) == IF a >= TICK_MAX - b THEN TICK_MAX ELSE a + b
SatSub(a, b) == IF a <= b THEN 0 ELSE a - b

\* a sort that leaves the vector as it is
KeepOrder(s) == s

RECURSIVE InsertSorted(_, _)
InsertSorted(s, x) ==
    IF s = <<>> THEN <<x>>
    ELSE IF x >= s[Len(s)] THEN Append(s, x)
    ELSE Append(InsertSorted(SubSeq(s, 1, Len(s) - 1), x), s[Len(s)])

RECURSIVE SortFrom(_, _, _)
SortFrom(s, i, acc) == IF i > Len(s) THEN acc ELSE SortFrom(s, i + 1, InsertSorted(acc, s[i]))

\* Vec<u32>::sort_unstable: ascending
sort_unstable(s) == SortFrom(s, 1, <<>>)

\* a read loop that keeps every tick as stored
ReadTicksRaw(buf) ==
    [i \in 1 .. Min(DO_NUM_INTERRUPT, Len(buf) \div 4) |->
        from_le_bytes(SubSeq(buf, 4 * (i - 1) + 1, 4 * i))]

\* a read loop that also zeroes a tick equal to FIRST_INT
ReadTicksInclusive(buf) ==
    [i \in 1 .. Min(DO_NUM_INTERRUPT, Len(buf) \div 4) |->
        LET start_tick == from_le_bytes(SubSeq(buf, 4 * (i - 1) + 1, 4 * i))
        IN IF start_tick <= FIRST_INT THEN 0 ELSE start_tick]

\* first loop of input_bytes_to_interrupt_times: up to DO_NUM_INTERRUPT complete
\* 4 byte groups, ticks below FIRST_INT become 0
ReadTicks(buf) ==
    [i \in 1 .. Min(DO_NUM_INTERRUPT, Len(buf) \div 4) |->
        LET start_tick == from_le_bytes(SubSeq(buf, 4 * (i - 1) + 1, 4 * i))
        IN IF start_tick < FIRST_INT THEN 0 ELSE start_tick]

\* second loop of input_bytes_to_interrupt_times ("obey the minimum inter
\* arrival time while maintaining the sort"); i is the 1-based loop index
RECURSIVE ObeyMinIat(_, _, _)
ObeyMinIat(ret, i, thr) ==
    IF i > Len(ret) THEN ret
    ELSE IF ret[i] = 0 \/ i = Len(ret) THEN ObeyMinIat(ret, i + 1, thr)
    ELSE IF ret[i + 1] - ret[i] < thr
         THEN ObeyMinIat(sort_unstable([ret EXCEPT ![i + 1] = 0]), i + 1, thr)
         ELSE ObeyMinIat(ret, i + 1, thr)

\* input_bytes_to_interrupt_times(buf, config), config.1 = iat
input_bytes_to_interrupt_times(buf, iat) ==
    ObeyMinIat(sort_unstable(ReadTicks(buf)), 1, MinIatTicks(iat))

RECURSIVE EncodeFrom(_, _, _)
EncodeFrom(ts, i, acc) ==
    IF i > Len(ts) THEN acc ELSE EncodeFrom(ts, i + 1, acc \o to_le_bytes(ts[i]))

\* an encoding that leaves out the ticks that are 0
EncodeNonZero(ts) == EncodeFrom(SelectSeq(ts, LAMBDA t : t # 0), 1, <<>>)

\* interrupt_times_to_input_bytes
interrupt_times_to_input_bytes(ts) == EncodeFrom(ts, 1, <<>>)

\* ---- inputs of the interrupt-time model
\* ticks an input part may hold: 0, below FIRST_INT, FIRST_INT, two ticks
\* around FIRST_INT + MinIatTicks(1001), and a late one
InputTicks == {0, 100000, FIRST_INT, 231280, 231281, 300000}
MinIats == {0, 1000, 1001}
\* two raw parts of two close ticks: below FIRST_INT, and above it
ExampleTicks == {<<100, 150>>, <<200100, 200150>>}
RECURSIVE TickSeqs(_)
TickSeqs(n) ==
    IF n = 0 THEN {<<>>}
    ELSE TickSeqs(n - 1) \cup {Append(q, t) : q \in {x \in TickSeqs(n - 1) : Len(x) = n - 1}, t \in InputTicks}
\* bytes that do not fill a 4 byte group
PartTail == <<64, 13, 3>>
\* the parts: whole ticks, and parts of at most one tick with an incomplete group
InputParts ==
    {interrupt_times_to_input_bytes(q) : q \in TickSeqs(MaxTimes)}
      \cup {interrupt_times_to_input_bytes(q) \o PartTail : q \in TickSeqs(1)}
      \cup {interrupt_times_to_input_bytes(q) : q \in ExampleTicks}

\* The harness (fuzzer.rs) decodes the part of the input it runs and installs
\* the ticks as the interrupt schedule of the source
Install(bytes) == input_bytes_to_interrupt_times(bytes, min_iat)

Harness ==
    /\ offsets' = Install(part)
    /\ UNCHANGED <<fbs, part, min_iat, meta, maxtick, mutate_stg, submitted, branch, harnessVars, nonIrqVars>>

\* ---- InterruptShiftStage (mutational.rs)
has_interrupt_handler_non_systick(f, node) ==
    \E e \in EdgeIndices(f) :
        /\ EdgeAt(f, e).source = node
        /\ EdgeAt(f, e).event = ISRStart
        /\ EdgeAt(f, e).name # "xPortSysTickHandler"

\* ExecInterval::get_hash_index
get_hash_index(iv) == <<iv.start_state, AbbHash(iv.abb)>>

\* try_force_new_branches: loop over the ticks, num is the 1-based position;
\* the result is None or <<new_interrupt_times>>
RECURSIVE ForceLoop(_, _, _, _, _, _)
ForceLoop(num, ticks, f, ivs, iat, acc) ==
    IF num > Len(ticks) THEN None
    ELSE LET lower_bound == IF num = 1 THEN FIRST_INT ELSE SatAdd(ticks[num - 1], MinIatTicks(iat))
             next == IF Len(ticks) > num THEN ticks[num + 1] ELSE TICK_MAX
             Cand(x) == /\ x.start_tick >= lower_bound
                        /\ x.start_tick < next
                        /\ x.start_capture[1] # ISRStart
                        /\ ~has_interrupt_handler_non_systick(f, f.state_abb_hash_index[get_hash_index(x)])
             cands == SelectSeq(ivs, Cand)
         IN IF cands # <<>>
            THEN LET iv == cands[1]
                     new_time == iv.start_tick + (iv.end_tick + iv.start_tick) \div 4
                     rest == IF new_time + iat < next
                             THEN SubSeq(ticks, num, Len(ticks))
                             ELSE SubSeq(ticks, num + 1, Len(ticks))
                 IN <<Append(acc, new_time) \o rest>>
            ELSE ForceLoop(num + 1, ticks, f, ivs, iat, Append(acc, ticks[num]))

try_force_new_branches(ticks, f, ivs, iat) == ForceLoop(1, ticks, f, ivs, iat, <<>>)

\* The random generator of a stage iteration: a stream of draws <<c, v>>, the
\* i-th loop iteration takes draw i (cyclically); c selects in choose, v in between
RndDraws == {<<0, 0>>, <<1, 2>>}
RndStreams == {<<a, b>> : a, b \in RndDraws}
Draw(stream, i) == stream[((i - 1) % Len(stream)) + 1]
\* myrand.between(lo, hi) for v in 0..2: lo, the middle or hi
between(lo, hi, v) == lo + (v * (hi - lo)) \div 2
\* myrand.choose(list)
choose(list, c) == list[(c % Len(list)) + 1]

\* upper limit of the number of ticks a full randomisation generates
RandomizeMax(mt, iat) ==
    Min(MAX_NUM_INTERRUPT, (mt * 3) \div (iat * QEMU_ISNS_PER_USEC_USIZE * 2))

\* "fully randomize all interrupts": k ticks between 0 and maxtick, as drawn
Randomize(k, stream, mt) ==
    [i \in 1 .. k |-> between(0, Min(mt, TICK_MAX), Draw(stream, i)[2])]

\* alternative search: "calculate hits and identify snippets"
Marks(ivs, old) ==
    LET m(j) == \E x \in Range(old) : ivs[j].start_tick <= x /\ x < ivs[j].end_tick
    IN [i \in DOMAIN ivs |->
          [iv |-> ivs[i], idx |-> i - 1,
           kind |-> IF m(i) THEN 1 ELSE IF i > 1 /\ m(i - 1) THEN 2 ELSE 0]]

\* alternative search: one iteration of `for i in 0..old_interrupt_times.len()`
\* (i is 1-based); acc = [new, do_rerun]
AltStep(acc, i, old, marks, ivs, thr, stream) ==
    LET n == Len(old)
        lb == IF i > 1 THEN SatAdd(acc.new[i - 1], thr) ELSE FIRST_INT
        ub == IF i < n THEN SatSub(acc.new[i + 1], thr) ELSE ivs[Len(ivs)].end_tick
        Hit(x) == x.iv.start_tick < old[i] /\ old[i] < x.iv.end_tick
        hits == SelectSeq(marks, Hit)
        old_hit == IF hits = <<>> THEN None ELSE <<hits[1]>>
        old_handler == IF old_hit # None /\ old_hit[1].idx < n - 1 /\ old_hit[1].idx < Len(marks) - 1
                       THEN <<marks[old_hit[1].idx + 2]>> ELSE None
        Alt(x) == /\ x.kind # 2
                  /\ \/ (x.iv.start_tick < lb /\ lb < x.iv.end_tick)
                     \/ (x.iv.start_tick > lb /\ x.iv.start_tick < ub)
        alternatives == SelectSeq(marks, Alt)
        Untouched(x) == x.kind = 0
        untouched == SelectSeq(marks, Untouched)
        d == Draw(stream, i)
    IN IF alternatives = <<>>
       THEN IF old_hit = None /\ untouched # <<>>
            THEN LET ch == choose(untouched, d[1])
                 IN [new |-> [acc.new EXCEPT ![i] = between(ch.iv.start_tick, ch.iv.end_tick, d[2])],
                     do_rerun |-> TRUE]
            ELSE acc
       ELSE LET replacement == choose(alternatives, d[1])
            IN IF old_hit # None /\ old_hit[1].idx = replacement.idx THEN acc
               ELSE LET extra == IF old_hit # None /\ old_hit[1].idx < replacement.idx /\ old_handler # None
                                 THEN old_handler[1].iv.end_tick - old_handler[1].iv.start_tick
                                 ELSE 0
                    IN [new |-> [acc.new EXCEPT ![i] =
                                   between(replacement.iv.start_tick, replacement.iv.end_tick, d[2]) + extra],
                        do_rerun |-> TRUE]

RECURSIVE AltLoop(_, _, _, _, _, _, _)
AltLoop(acc, i, old, marks, ivs, thr, stream) ==
    IF i > Len(old) THEN acc
    ELSE AltLoop(AltStep(acc, i, old, marks, ivs, thr, stream), i + 1, old, marks, ivs, thr, stream)

\* One iteration of the loop of InterruptShiftStage::perform on the part `bytes`:
\* the bytes of the part of new_input, whether it is evaluated, the branch taken
ShiftMutation(bytes, iat, m, f, mt, stg, choice, k, stream) ==
    LET old_interrupt_times == input_bytes_to_interrupt_times(bytes, iat)
        first == IF old_interrupt_times = <<>> THEN TICK_MAX ELSE old_interrupt_times[1]
        \* an integer division by zero panics: the stage is left, nothing is evaluated
        div_by_zero == iat * QEMU_ISNS_PER_USEC_USIZE * 2 = 0
        random_times == Randomize(Min(k, RandomizeMax(mt, iat)), stream, mt)
        forced == IF m = None THEN None ELSE try_force_new_branches(old_interrupt_times, f, m[1], iat)
        alt == AltLoop([new |-> old_interrupt_times, do_rerun |-> FALSE], 1, old_interrupt_times,
                       Marks(m[1], old_interrupt_times), m[1], MinIatTicks(iat), stream)
    IN IF stg
       THEN \* the part is drained, then refilled
            IF choice <= 25 \/ first > mt
            THEN IF div_by_zero THEN [bytes |-> <<>>, do_rerun |-> FALSE, branch |-> "panic"]
                 ELSE [bytes |-> interrupt_times_to_input_bytes(random_times),
                       do_rerun |-> TRUE, branch |-> "randomize"]
            ELSE IF choice <= 75
            THEN IF forced # None
                 THEN [bytes |-> interrupt_times_to_input_bytes(forced[1]),
                       do_rerun |-> TRUE, branch |-> "branches"]
                 ELSE [bytes |-> <<>>, do_rerun |-> FALSE, branch |-> "branches"]
            ELSE IF m = None
                 THEN [bytes |-> interrupt_times_to_input_bytes(old_interrupt_times),
                       do_rerun |-> FALSE, branch |-> "alternative"]
                 ELSE \* the part is extended inside the branch and once more after it
                      [bytes |-> interrupt_times_to_input_bytes(alt.new)
                                 \o interrupt_times_to_input_bytes(alt.new),
                       do_rerun |-> alt.do_rerun, branch |-> "alternative"]
       ELSE \* without mutate_stg the part keeps its bytes and is extended
            IF choice <= 25
            THEN IF div_by_zero THEN [bytes |-> bytes, do_rerun |-> FALSE, branch |-> "panic"]
                 ELSE [bytes |-> bytes \o interrupt_times_to_input_bytes(random_times),
                       do_rerun |-> TRUE, branch |-> "randomize"]
            ELSE [bytes |-> bytes, do_rerun |-> FALSE, branch |-> "skip"]

\* the random values of an iteration: myrand.between(1, 100) selecting one of
\* the three branches, the number of ticks of a randomisation, the later draws
NoDraws == <<<<0, 0>>, <<0, 0>>>>
RandomChoices ==
    {<<25, k, stream>> : k \in 0 .. MaxTimes, stream \in RndStreams}
      \cup {<<75, 0, NoDraws>>}
      \cup {<<100, 0, stream>> : stream \in RndStreams}

\* InterruptShiftStage::perform, one iteration of its loop: mutate a copy of the
\* current input and, if do_rerun, hand it to evaluate_input, whose harness
\* installs the decoded part (the trace of that run is the subject of SpecStg)
Perform(choice, k, stream) ==
    /\ LET r == ShiftMutation(part, min_iat, meta, fbs, maxtick, mutate_stg, choice, k, stream)
       IN /\ branch' = r.branch
          /\ submitted' = IF r.do_rerun THEN <<r.bytes>> ELSE None
          /\ offsets' = IF r.do_rerun THEN Install(r.bytes) ELSE offsets
    /\ UNCHANGED <<fbs, part, min_iat, meta, maxtick, mutate_stg, harnessVars, nonIrqVars>>

\* trace attached to the current testcase: a task interval, an interrupt
\* handler that is not the tick handler, and the task the handler woke
IrqTrace ==
    << [start_tick |-> 0, end_tick |-> 240000, start_state |-> HashT1,
        start_capture |-> <<APIEnd, "xQueueSend">>, abb |-> AbbApp0],
       [start_tick |-> 240000, end_tick |-> 260000, start_state |-> HashT1,
        start_capture |-> <<ISRStart, "ISR_0_Handler">>, abb |-> AbbIsr],
       [start_tick |-> 260000, end_tick |-> 409600, start_state |-> HashT2,
        start_capture |-> <<ISREnd, "ISR_0_Handler">>, abb |-> AbbApp0] >>
IrqReads == <<ReadsOf(1), ReadsOf(1), ReadsOf(1)>>
\* (STGNodeMetadata, IcHist worst icount) of the current testcase; the worst
\* icounts are multiples of 512, so that bytes appended behind an incomplete
\* 4 byte group still decode to ticks below 2^31
MetaCfgs == { <<None, 409600>>, << <<IrqTrace>>, 409600>>, << <<IrqTrace>>, 102400>> }

IrqInit ==
    /\ RunIdle
    /\ CmpIdle
    /\ SnipIdle
    /\ GenIdle
    /\ StgIdle
    /\ PruneIdle
    /\ PairIdle
    /\ HarnessIdle
    /\ part \in InputParts
    /\ min_iat \in MinIats
    /\ mutate_stg \in BOOLEAN
    /\ \E mc \in MetaCfgs : meta = mc[1] /\ maxtick = mc[2]
    /\ fbs = IF meta = None THEN DefaultFbs
             ELSE update_stg_interval(meta[1], IrqReads, StateTable, DefaultFbs).fbs
    /\ submitted = None
    /\ branch = "none"
    /\ offsets = <<>>

IrqNext ==
    \/ Harness
    \/ \E rc \in RandomChoices : Perform(rc[1], rc[2], rc[3])

SpecIrq == IrqInit /\ [][IrqNext]_vars

\* ---- the harness with the interrupt configuration (fuzzer.rs 295-338)
NUM_INTERRUPT_SOURCES == 6

\* parts of the inputs the harness is run with
HarnessParts == InputParts

\* interrupt configurations: none, one source, two sources, a source behind
\* the last row, the same source twice
InterruptConfigs ==
    { <<>>, << <<0, 1000>> >>, << <<0, 0>>, <<5, 1000>> >>,
      << <<0, 0>>, <<NUM_INTERRUPT_SOURCES, 0>> >>, << <<1, 0>>, <<1, 1001>> >> }

\* input.parts_by_name("isr_<i>_times").next().map(bytes).unwrap_or(&[])
PartBytes(input, i) == IF i \in DOMAIN input THEN input[i] ELSE <<>>

\* `libafl_interrupt_offsets[i][j] = t[j]` for j in 0..t.len() and
\* `libafl_num_interrupts[i] = t.len()`: an index outside of the array panics
LoadSource(st, i, t) ==
    IF i >= NUM_INTERRUPT_SOURCES THEN [st EXCEPT !.panic = TRUE]
    ELSE IF Len(t) > MAX_NUM_INTERRUPT
         THEN [st EXCEPT !.panic = TRUE, !.offsets[i] = SubSeq(t, 1, MAX_NUM_INTERRUPT)]
         ELSE [st EXCEPT !.offsets[i] = t \o SubSeq(@, Len(t) + 1, Len(@)), !.nums[i] = Len(t)]

\* the loop over interrupt_config
RECURSIVE LoadFrom(_, _, _, _)
LoadFrom(st, config, input, k) ==
    IF k > Len(config) \/ st.panic THEN st
    ELSE LoadFrom(LoadSource(st, config[k][1],
                             input_bytes_to_interrupt_times(PartBytes(input, config[k][1]), config[k][2])),
                  config, input, k + 1)

\* the harness up to qemu.run(): the schedule array is zeroed, then loaded
HarnessLoad ==
    /\ harness_state = "idle"
    /\ LET zeroed == [panic |-> FALSE,
                      offsets |-> [i \in 0 .. NUM_INTERRUPT_SOURCES - 1 |-> <<>>],
                      nums |-> libafl_num_interrupts]
           st == LoadFrom(zeroed, interrupt_config, run_input, 1)
       IN /\ libafl_interrupt_offsets' = st.offsets
          /\ libafl_num_interrupts' = st.nums
          /\ harness_state' = IF st.panic THEN "panic" ELSE "done"
    /\ UNCHANGED <<fbs, part, min_iat, meta, maxtick, mutate_stg, submitted, branch, offsets,
                   interrupt_config, run_input, nonIrqVars>>

HarnessInit ==
    /\ fbs = DefaultFbs
    /\ RunIdle
    /\ CmpIdle
    /\ SnipIdle
    /\ GenIdle
    /\ StgIdle
    /\ PruneIdle
    /\ PairIdle
    /\ part = <<>>
    /\ min_iat = 0
    /\ meta = None
    /\ maxtick = 0
    /\ mutate_stg = TRUE
    /\ submitted = None
    /\ branch = "none"
    /\ offsets = <<>>
    /\ interrupt_config \in InterruptConfigs
    /\ \E p \in HarnessParts :
          \/ run_input = [i \in 0 .. NUM_INTERRUPT_SOURCES |-> p]
          \/ run_input = [i \in {0} |-> p]
    /\ libafl_interrupt_offsets = [i \in 0 .. NUM_INTERRUPT_SOURCES - 1 |-> <<>>]
    /\ libafl_num_interrupts = [i \in 0 .. NUM_INTERRUPT_SOURCES - 1 |-> 0]
    /\ harness_state = "idle"

HarnessNext == HarnessLoad

SpecHarness == HarnessInit /\ [][HarnessNext]_vars

\* ------------------------------------------------------------------------
\* Properties of the interrupt times (SpecIrq)
\* ------------------------------------------------------------------------
\* the ticks a part stores, in stored order, without any post-processing
StoredTicks(bytes) ==
    [i \in 1 .. (Len(bytes) \div 4) |-> from_le_bytes(SubSeq(bytes, 4 * (i - 1) + 1, 4 * i))]

\* non-decreasing, and neighbours at least thr apart unless one of them is 0
SortedMinIat(ts, thr) ==
    \A i \in 1 .. (Len(ts) - 1) :
        /\ ts[i] <= ts[i + 1]
        /\ (ts[i] = 0 \/ ts[i + 1] = 0 \/ ts[i + 1] - ts[i] >= thr)

\* C1: for every byte buffer and configured min_iat the decoded tick vector,
\* and so the schedule the harness installs, is non-decreasing and neighbours
\* differ by at least min_iat * isns_per_usec ticks (as a u32) unless one is 0.
C1_DecodedTimesSorted ==
    /\ SortedMinIat(input_bytes_to_interrupt_times(part, min_iat), MinIatTicks(min_iat))
    /\ submitted # None =>
          SortedMinIat(input_bytes_to_interrupt_times(submitted[1], min_iat), MinIatTicks(min_iat))
    /\ SortedMinIat(offsets, MinIatTicks(min_iat))

\* C1 witness: the harness ran a part that stores two ticks out of order and
\* closer than the minimum inter-arrival time; the later one was zeroed
C1_Witness ==
    /\ min_iat = 1001
    /\ StoredTicks(part) = <<231280, FIRST_INT>>
    /\ submitted = None
    /\ offsets = <<0, FIRST_INT>>

\* C2: after an iteration of InterruptShiftStage::perform that submits an
\* input, the bytes of its isr_i_times part, read as little-endian u32 in
\* stored order, are sorted and satisfy the minimum inter-arrival time.
C2_EmittedPartSortedFiltered ==
    submitted # None =>
        /\ Len(submitted[1]) % 4 = 0
        /\ SortedMinIat(StoredTicks(submitted[1]), MinIatTicks(min_iat))

\* ======================================================================
\* Corpus pruning: SchedulerStatsStage::perform (systemstate/report.rs)
\* ======================================================================

MULTI == 10
PRUNE_THRESHOLD == 20
PRUNE_MAX_KEEP == 1000
PRUNE_MIN_KEEP == 100
QEMU_NS_PER_ISN == 32

\* bounds of the pruning runs
MaxPasses == 2
MaxAdded == 2

\* Duration::from_nanos(ticks * _QEMU_NS_PER_ISN), in nanoseconds
tick_to_time(ticks) == ticks * QEMU_NS_PER_ISN

\* A testcase as the pruning pass reads it: its corpus id, its exec_time
\* (None, or <<nanoseconds>>) and whether it carries IsFavoredMetadata.
\* A negative tick count stands for a testcase without exec_time.
Testcase(id, ticks, fav) ==
    [id |-> id,
     exec_time |-> IF ticks < 0 THEN None ELSE <<tick_to_time(ticks)>>,
     favored |-> fav]

\* Option<Duration> ordering: None sorts before every Some
ExecKey(t) == IF t.exec_time = None THEN -1 ELSE t.exec_time[1]

IdsOf(c) == {c[i].id : i \in DOMAIN c}

\* the threshold of the prose applied in place of the code's
ActivateAboveMaxKeep(cc, vc) == cc > Max(vc * MULTI, PRUNE_MAX_KEEP)

\* let activate = cc > PRUNE_MAX_KEEP || cc > max(vc*PRUNE_THRESHOLD, PRUNE_MIN_KEEP*2)
Activate(cc, vc) ==
    cc > PRUNE_MAX_KEEP \/ cc > Max(vc * PRUNE_THRESHOLD, PRUNE_MIN_KEEP * 2)

\* let to_keep = usize::max(vc*MULTI, PRUNE_MIN_KEEP)
ToKeep(vc) == Max(vc * MULTI, PRUNE_MIN_KEEP)

\* the first testcase, in id order, whose exec_time equals the worst
\* observed time: the one the filter flags with wort_preserved
Flagged(c, wortTime) ==
    LET hits == SelectSeq(c, LAMBDA t : t.exec_time = <<wortTime>>)
    IN  IF wortTime > 0 /\ hits # <<>> THEN <<hits[1].id>> ELSE None

\* the else-branch test of the filter: the testcase is left out of the list
Protected(t, v, cur) ==
    /\ Cardinality(v) < PRUNE_MAX_KEEP
    /\ (t.favored \/ <<t.id>> = cur \/ t.id \in v)

\* the filter_map closure: the flagged testcase and every unprotected one
\* are put on the list
Candidates(c, v, cur, wortTime) ==
    LET fl == Flagged(c, wortTime)
    IN  SelectSeq(c, LAMBDA t : (fl # None /\ t.id = fl[1]) \/ ~Protected(t, v, cur))

\* Itertools::sorted_by_key on the exec_time: a stable sort
RECURSIVE SortedByKey(_)
SortedByKey(s) ==
    IF s = <<>> THEN <<>>
    ELSE LET keys == {ExecKey(s[i]) : i \in DOMAIN s}
             k == CHOOSE x \in keys : \A y \in keys : x <= y
         IN  SelectSeq(s, LAMBDA t : ExecKey(t) = k)
                 \o SortedByKey(SelectSeq(s, LAMBDA t : ExecKey(t) # k))

\* the ids the pass removes from corpus c
PruneIds(c, v, cur, wortTime) ==
    LET cc == Len(c)
        vc == Cardinality(v)
        sorted == SortedByKey(Candidates(c, v, cur, wortTime))
        taken == SubSeq(sorted, 1, Min(Len(sorted), SatSub(cc, ToKeep(vc))))
    IN  IF Activate(cc, vc) THEN IdsOf(taken) ELSE {}

\* One due pass of the stage. Without TopRatedsMetadata nothing is pruned.
\* The scheduler's on_remove drops the removed ids from the top-rated map.
Prune ==
    /\ passes < MaxPasses
    /\ \E ids \in {IF top_rated = None THEN {}
                  ELSE PruneIds(corpus, top_rated[1], currid, tick_to_time(wort))} :
           /\ corpus' = SelectSeq(corpus, LAMBDA t : t.id \notin ids)
           /\ last_removed' = ids
           /\ top_rated' = IF top_rated = None THEN None ELSE <<top_rated[1] \ ids>>
    /\ passes' = passes + 1
    /\ UNCHANGED <<currid, has_hist, wort, next_id, nadded, nonPruneVars>>

\* One evaluated input: ClockTimeFeedback records its icount in IcHist (when
\* IcHist is maintained) and an interesting input joins the corpus with
\* exec_time = tick_to_time(icount).
Evaluate(icount, interesting) ==
    /\ nadded < MaxAdded
    /\ wort' = IF has_hist THEN Max(wort, icount) ELSE wort
    /\ corpus' = IF interesting
                 THEN Append(corpus, Testcase(next_id, icount, FALSE))
                 ELSE corpus
    /\ next_id' = IF interesting THEN next_id + 1 ELSE next_id
    /\ nadded' = nadded + 1
    /\ UNCHANGED <<top_rated, currid, has_hist, last_removed, passes, nonPruneVars>>

\* ---- the corpora of the runs ----
Ticks1ms == 31250
Ticks5ms == 156250
Ticks10ms == 312500
Ticks20ms == 625000
NoTime == 0 - 1

\* a corpus from blocks <<count, ticks, favored>> laid out in id order
RECURSIVE BuildCorpus(_, _, _)
BuildCorpus(blocks, i, acc) ==
    IF i > Len(blocks) THEN acc
    ELSE BuildCorpus(blocks, i + 1,
             acc \o [j \in 1 .. blocks[i][1] |->
                        Testcase(Len(acc) + j - 1, blocks[i][2], blocks[i][3])])

\* <<blocks, top-rated ids>>
PruneConfigs ==
    { << << <<1, Ticks10ms, FALSE>>, <<200, Ticks1ms, FALSE>> >>, <<{}>> >>,
      << << <<1, Ticks10ms, FALSE>>, <<200, Ticks1ms, FALSE>> >>, None >>,
      << << <<1, Ticks10ms, FALSE>>, <<199, Ticks1ms, FALSE>> >>, <<{0}>> >>,
      << << <<1, Ticks10ms, TRUE>>, <<100, Ticks1ms, FALSE>>,
            <<100, Ticks10ms, FALSE>> >>, <<{0}>> >>,
      << << <<1, Ticks10ms, FALSE>>, <<50, Ticks1ms, FALSE>>,
            <<150, Ticks5ms, TRUE>> >>, <<51 .. 55>> >>,
      << << <<2, NoTime, FALSE>>, <<1, Ticks10ms, FALSE>>,
            <<198, Ticks1ms, FALSE>> >>, <<{}>> >>,
      << << <<12, Ticks5ms, TRUE>>, <<238, Ticks1ms, FALSE>> >>, <<0 .. 11>> >>,
      << << <<13, Ticks5ms, TRUE>>, <<237, Ticks1ms, FALSE>> >>, <<0 .. 12>> >>,
      << << <<101, Ticks5ms, FALSE>>, <<900, Ticks1ms, FALSE>> >>, <<0 .. 59>> >>,
      << << <<101, Ticks5ms, FALSE>>, <<900, Ticks1ms, FALSE>> >>, <<0 .. 100>> >> }

EvalTicks == {Ticks1ms, Ticks20ms}

\* the largest icount among the testcases of c
MaxTicksOf(c) ==
    LET ks == {ExecKey(c[i]) : i \in DOMAIN c}
    IN  (CHOOSE x \in ks : \A y \in ks : y <= x) \div QEMU_NS_PER_ISN

PruneInit ==
    /\ RunIdle
    /\ CmpIdle
    /\ SnipIdle
    /\ GenIdle
    /\ fbs = DefaultFbs
    /\ StgIdle
    /\ IrqIdle
    /\ PairIdle
    /\ \E cfg \in PruneConfigs :
          /\ corpus = BuildCorpus(cfg[1], 1, <<>>)
          /\ top_rated = cfg[2]
    /\ currid \in {None, <<0>>, <<Len(corpus) - 1>>}
    /\ has_hist \in BOOLEAN
    /\ wort = IF has_hist THEN MaxTicksOf(corpus) ELSE 0
    /\ next_id = Len(corpus)
    /\ last_removed = {}
    /\ passes = 0
    /\ nadded = 0

PruneNext ==
    \/ Prune
    \/ \E icount \in EvalTicks, interesting \in BOOLEAN : Evaluate(icount, interesting)

SpecPrune == PruneInit /\ [][PruneNext]_vars

\* ---- properties of the pruning pass ----

\* a step of SpecPrune that is a pruning pass
PruneStep == passes' = passes + 1

\* the ids a step takes out of the corpus
RemovedBy == IdsOf(corpus) \ IdsOf(corpus')

TopRatedIds == IF top_rated = None THEN {} ELSE top_rated[1]

\* favored: carries IsFavoredMetadata or is top-rated
IsFavored(t) == t.favored \/ t.id \in TopRatedIds
IsCurrent(t) == <<t.id>> = currid

\* C7: a pruning pass over a corpus that holds a testcase whose exec_time
\* equals the worst observed execution time leaves such a testcase in the
\* corpus.
C7_WorstSurvives ==
    [][PruneStep =>
        \A w \in {<<tick_to_time(wort)>>} :
            (wort > 0 /\ \E i \in DOMAIN corpus : corpus[i].exec_time = w)
                => \E i \in DOMAIN corpus' : corpus'[i].exec_time = w]_vars

\* the testcases a pass may remove: those that are neither favored nor
\* current (all of them once 1000 ids are top-rated), and the first
\* testcase whose exec_time equals the worst observed time
RemovalCandidates ==
    LET w == <<tick_to_time(wort)>>
        all == {corpus[i] : i \in DOMAIN corpus}
        hits == {t \in all : wort > 0 /\ t.exec_time = w}
    IN  {t \in all :
            \/ Cardinality(TopRatedIds) >= PRUNE_MAX_KEEP
            \/ ~(IsFavored(t) \/ IsCurrent(t))
            \/ (t \in hits /\ \A u \in hits : t.id <= u.id)}

\* removed ids rem are the lowest-exec_time candidates, ties in id order
LowestFirst(cand, rem) ==
    LET keys == {ExecKey(t) : t \in cand}
    IN  /\ \A a \in keys, b \in keys :
              (a < b /\ \E t \in cand : ExecKey(t) = b /\ t.id \in rem)
                  => \A t \in cand : ExecKey(t) = a => t.id \in rem
        /\ \A a \in keys :
              \A ck \in {SelectSeq(corpus,
                            LAMBDA t : t \in cand /\ ExecKey(t) = a)} :
                  \A i \in 1 .. Len(ck) - 1 :
                      ck[i + 1].id \in rem => ck[i].id \in rem

C9_ProtectedAndOrdered ==
    [][PruneStep =>
        \A rem \in {RemovedBy} :
            \A i \in DOMAIN corpus :
                corpus[i].id \in rem =>
                    /\ ~IsFavored(corpus[i])
                    /\ ~IsCurrent(corpus[i])
                    /\ \A j \in DOMAIN corpus :
                          (/\ corpus[j].id \notin rem
                           /\ ~IsFavored(corpus[j])
                           /\ ~IsCurrent(corpus[j]))
                              => ExecKey(corpus[j]) >= ExecKey(corpus[i])]_vars

\* ======================================================================
\* Job extraction: get_release_response_pairs
\* (systemstate/target_os/freertos/qemu_module.rs)
\* ======================================================================

\* bounds of the pairing runs
MaxRel == 3
MaxResp == 3

PairTasks == {"T", "U"}
PairTicks == {10000, 20000, 30000, 40000}

\* tick_to_time(t).as_micros()
as_micros(t) == tick_to_time(t) \div 1000
abs_diff(a, b) == IF a >= b THEN a - b ELSE b - a

\* the cursors r and d, the maps ready and last_response, ret, maybe_error
PairStart ==
    [ri |-> 1, di |-> 1,
     ready |-> [t \in PairTasks \cup TaskNames |-> None],
     last_response |-> [t \in PairTasks \cup TaskNames |-> None],
     ret |-> <<>>, maybe_error |-> FALSE]

\* the commented-out ready.insert put back: the later release replaces the
\* pending one
OverwritePending(st, pr) ==
    [st EXCEPT !.ready[pr[2]] = <<pr[1]>>, !.ri = st.ri + 1]

\* "multiple releases before response": the later release is dropped
DiscardRelease(st, pr) == [st EXCEPT !.ri = st.ri + 1]

\* while let Some(peek_rel) = r.peek() { .. }
RECURSIVE FillReleases(_, _, _)
FillReleases(rel, resp, st) ==
    IF st.ri > Len(rel) THEN st
    ELSE LET pr == rel[st.ri]
         IN  IF st.ready[pr[2]] = None
             THEN FillReleases(rel, resp,
                      [st EXCEPT !.ready[pr[2]] = <<pr[1]>>, !.ri = st.ri + 1])
             ELSE IF st.di <= Len(resp)
                  THEN IF resp[st.di][1] > pr[1]
                       THEN FillReleases(rel, resp, DiscardRelease(st, pr))
                       ELSE st
                  ELSE st

\* the fallback as the prose has it: reuse of the last response tick only
\* within 500 us, otherwise maybe_error and no pair
FallBackWithin(st, nr, tolerate) ==
    LET T == nr[2]
        lr == st.last_response[T]
    IN  IF lr # None /\ abs_diff(as_micros(nr[1]), as_micros(lr[1])) <= 500
        THEN [st EXCEPT
                !.ret = Append(st.ret, <<lr[1], nr[1], T>>),
                !.last_response[T] = <<nr[1]>>]
        ELSE [st EXCEPT !.maybe_error = TRUE]

\* reuse of the last response tick as release; without one, maybe_error
FallBack(st, nr, tolerate) ==
    LET T == nr[2]
        lr == st.last_response[T]
    IN  IF lr # None
        THEN [st EXCEPT
                !.maybe_error = st.maybe_error
                    \/ (tolerate /\ abs_diff(as_micros(nr[1]), as_micros(lr[1])) > 500),
                !.ret = Append(st.ret, <<lr[1], nr[1], T>>),
                !.last_response[T] = <<nr[1]>>]
        ELSE [st EXCEPT !.maybe_error = TRUE]

\* a response handling that pairs the pending release whatever its tick
RespondUnchecked(st, nr) ==
    LET T == nr[2]
        s1 == [st EXCEPT !.di = st.di + 1]
    IN  IF s1.ready[T] # None
        THEN [s1 EXCEPT
                !.last_response[T] = <<nr[1]>>,
                !.ret = Append(s1.ret, <<s1.ready[T][1], nr[1], T>>),
                !.ready[T] = None]
        ELSE FallBack(s1, nr, FALSE)

\* if let Some(next_resp) = d.next() { .. }
Respond(st, nr) ==
    LET T == nr[2]
        s1 == [st EXCEPT !.di = st.di + 1]
    IN  IF s1.ready[T] # None
        THEN IF s1.ready[T][1] >= nr[1]
             THEN FallBack(s1, nr, TRUE)
             ELSE [s1 EXCEPT
                     !.last_response[T] = <<nr[1]>>,
                     !.ret = Append(s1.ret, <<s1.ready[T][1], nr[1], T>>),
                     !.ready[T] = None]
        ELSE FallBack(s1, nr, FALSE)

RECURSIVE PairLoop(_, _, _)
PairLoop(rel, resp, st) ==
    LET s1 == FillReleases(rel, resp, st)
    IN  IF s1.di > Len(resp)
        THEN <<s1.ret, s1.maybe_error>>
        ELSE PairLoop(rel, resp, Respond(s1, resp[s1.di]))

get_release_response_pairs(rel, resp) == PairLoop(rel, resp, PairStart)

\* lists of (tick, task) of at most n entries in non-decreasing tick order
RECURSIVE TickOrdered(_)
TickOrdered(n) ==
    IF n = 0 THEN {<<>>}
    ELSE LET shorter == TickOrdered(n - 1)
         IN  shorter \cup
             {Append(q[1], <<q[2], q[3]>>) :
                 q \in {x \in shorter \X PairTicks \X PairTasks :
                           /\ Len(x[1]) = n - 1
                           /\ x[1] # <<>> => x[1][Len(x[1])][1] <= x[2]}}

\* job_done_hook: JOBS_DONE.push((icount, current task name))
JobDone(tick, task) ==
    /\ job_spans = None
    /\ Len(jobs_done) < MaxResp
    /\ jobs_done # <<>> => jobs_done[Len(jobs_done)][1] <= tick
    /\ jobs_done' = Append(jobs_done, <<tick, task>>)
    /\ UNCHANGED <<releases, responses, job_spans, do_report, nonPairVars>>

\* the trace_job_response_times block of the post-exec hook
PairJobs ==
    /\ job_spans = None
    /\ responses' = jobs_done
    /\ jobs_done' = <<>>
    /\ \E res \in {get_release_response_pairs(releases, jobs_done)} :
          /\ job_spans' = <<res[1]>>
          /\ do_report' = res[2]
    /\ UNCHANGED <<releases, nonPairVars>>

PairInit ==
    /\ RunIdle
    /\ CmpIdle
    /\ SnipIdle
    /\ GenIdle
    /\ fbs = DefaultFbs
    /\ StgIdle
    /\ IrqIdle
    /\ PruneIdle
    /\ releases \in TickOrdered(MaxRel)
    /\ jobs_done = <<>>
    /\ responses = <<>>
    /\ job_spans = None
    /\ do_report = FALSE

PairNext ==
    \/ \E tick \in PairTicks, task \in PairTasks : JobDone(tick, task)
    \/ PairJobs

SpecPair == PairInit /\ [][PairNext]_vars

\* ---- properties of the pairing ----

\* ticks of the releases of task T
ReleaseTicks(T) == {releases[i][1] : i \in {k \in DOMAIN releases : releases[k][2] = T}}

\* the tick of the last response of response j's task before j, else 0
PrevResponse(j) ==
    LET before == {i \in 1 .. j - 1 : responses[i][2] = responses[j][2]}
    IN  IF before = {} THEN 0
        ELSE responses[CHOOSE i \in before : \A k \in before : k <= i][1]

\* the releases pending at response j: those of its task at or after the
\* task's previous response and before response j
PendingAt(j) ==
    {x \in ReleaseTicks(responses[j][2]) : PrevResponse(j) <= x /\ x < responses[j][1]}

\* C10: every response of a task with pending releases is paired with the
\* earliest of them, and no job of a task is released before an earlier
\* response of that task, so a release that was pending at a response and
\* not taken by it starts no later job.
C10_OldestReleaseConsumed ==
    job_spans # None =>
        /\ \A j \in DOMAIN responses :
              PendingAt(j) # {} =>
                  \E k \in DOMAIN job_spans[1] :
                      job_spans[1][k] =
                          <<CHOOSE x \in PendingAt(j) : \A y \in PendingAt(j) : x <= y,
                            responses[j][1], responses[j][2]>>
        /\ \A k \in DOMAIN job_spans[1], i \in DOMAIN job_spans[1] :
              (i < k /\ job_spans[1][i][3] = job_spans[1][k][3])
                  => job_spans[1][k][1] >= job_spans[1][i][2]

\* two releases of T before its response, then a second response
C10_Witness ==
    /\ releases = << <<10000, "T">>, <<20000, "T">> >>
    /\ responses = << <<30000, "T">>, <<40000, "T">> >>
    /\ job_spans = << << <<10000, 30000, "T">>, <<30000, 40000, "T">> >> >>

\* response j has an earlier response of its task that was paired: the
\* first paired response of a task is one with a pending release, and every
\* later one is paired
HasLastResponse(j) ==
    \E i \in 1 .. j - 1 :
        responses[i][2] = responses[j][2] /\ PendingAt(i) # {}

\* more than 500 us between response j and the previous response of its task
FarFromLast(j) ==
    abs_diff(as_micros(responses[j][1]), as_micros(PrevResponse(j))) > 500

\* the pairs in response order; a response without pending release is paired
\* with the last response of its task, under `within` only up to 500 us
RECURSIVE PairsFrom(_, _)
PairsFrom(j, within) ==
    IF j > Len(responses) THEN <<>>
    ELSE (IF PendingAt(j) # {}
          THEN << <<CHOOSE x \in PendingAt(j) : \A y \in PendingAt(j) : x <= y,
                    responses[j][1], responses[j][2]>> >>
          ELSE IF HasLastResponse(j) /\ (within => ~FarFromLast(j))
               THEN << <<PrevResponse(j), responses[j][1], responses[j][2]>> >>
               ELSE <<>>)
         \o PairsFrom(j + 1, within)

\* C11 (amended): a response of T with no pending release is paired with the
\* last response of T whenever one exists, at any distance; without a last
\* response it is dropped and need_to_debug is flagged. need_to_debug is
\* flagged only for a dropped response or for one that is more than 500 us
\* after the last response while a release of T at or after it is recorded.
\* Releases [(0,T)] and responses [(1000,T),(1200,T)] give (0,1000,T) and
\* (1000,1200,T).
C11_FallBackToLastResponse ==
    /\ get_release_response_pairs(<< <<0, "T">> >>,
                                  << <<1000, "T">>, <<1200, "T">> >>)
           = << << <<0, 1000, "T">>, <<1000, 1200, "T">> >>, FALSE >>
    /\ job_spans # None =>
          /\ job_spans[1] = PairsFrom(1, FALSE)
          /\ \A j \in DOMAIN responses :
                (PendingAt(j) = {} /\ ~HasLastResponse(j)) => do_report
          /\ do_report =>
                \E j \in DOMAIN responses :
                    /\ PendingAt(j) = {}
                    /\ \/ ~HasLastResponse(j)
                       \/ /\ FarFromLast(j)
                          /\ \E x \in ReleaseTicks(responses[j][2]) :
                                x >= responses[j][1]

\* a second response of T 640 us after the first, no release in between:
\* paired with the first response, nothing flagged
C11_Witness ==
    /\ releases = << <<10000, "T">> >>
    /\ responses = << <<20000, "T">>, <<40000, "T">> >>
    /\ job_spans = << << <<10000, 20000, "T">>, <<20000, 40000, "T">> >> >>
    /\ do_report = FALSE

\* C11 as stated: a response of T with no pending release is paired with the
\* last response of T if one exists within 500 us; otherwise need_to_debug
\* is flagged and no pair is produced for it.
C11_FallBackWithinTolerance ==
    job_spans # None =>
        /\ job_spans[1] = PairsFrom(1, TRUE)
        /\ \A j \in DOMAIN responses :
              (PendingAt(j) = {} /\ ~(HasLastResponse(j) /\ ~FarFromLast(j)))
                  => do_report

\* ------------------------------------------------------------------------
\* Round trip and example of the interrupt-time decoding (SpecIrq)
\* ------------------------------------------------------------------------
\* |a - b| < thr
abs_tick_diff_lt(a, b, thr) == Max(a, b) - Min(a, b) < thr

\* decode, encode, decode again
Redecode(bytes, iat) ==
    input_bytes_to_interrupt_times(
        interrupt_times_to_input_bytes(input_bytes_to_interrupt_times(bytes, iat)), iat)

\* C19: for every byte buffer and configuration, encoding the decoded tick
\* vector with interrupt_times_to_input_bytes and decoding the bytes again
\* returns the vector of the first decode; the encoded bytes store exactly
\* the decoded (sorted and filtered) ticks.
C19_DecodeIdempotent ==
    /\ \A b \in {part} \cup (IF submitted = None THEN {} ELSE {submitted[1]}) :
          /\ Redecode(b, min_iat) = input_bytes_to_interrupt_times(b, min_iat)
          /\ StoredTicks(interrupt_times_to_input_bytes(input_bytes_to_interrupt_times(b, min_iat)))
               = input_bytes_to_interrupt_times(b, min_iat)
    /\ Redecode(interrupt_times_to_input_bytes(offsets), min_iat) = offsets

\* C19 witness: the harness decoded a part with a tick below FIRST_INT, two
\* ticks out of order; the decoded vector differs from the stored ticks and
\* holds a zero
C19_Witness ==
    /\ min_iat = 1001
    /\ StoredTicks(part) = <<300000, 100000>>
    /\ offsets = <<0, 300000>>
    /\ Redecode(part, min_iat) = offsets

\* C20 (as the code decodes): with min-iat 1000 us the raw part [100, 150]
\* decodes to [0, 0], both ticks being below FIRST_INT; two raw ticks at or
\* above FIRST_INT and closer than 31250 ticks decode to [earlier, 0], sorted
\* [0, earlier].
C20_CloseNeighbourDropped ==
    min_iat = 1000 =>
        /\ StoredTicks(part) = <<100, 150>> =>
              input_bytes_to_interrupt_times(part, min_iat) = <<0, 0>>
        /\ \A t \in {StoredTicks(part)} :
              (Len(t) = 2 /\ Len(part) = 8 /\ t[1] >= FIRST_INT /\ t[2] >= FIRST_INT
                 /\ abs_tick_diff_lt(t[1], t[2], MinIatTicks(min_iat))) =>
                    input_bytes_to_interrupt_times(part, min_iat) = <<0, Min(t[1], t[2])>>

\* C20 witness: the harness installed the decoded example part
C20_Witness ==
    /\ min_iat = 1000
    /\ StoredTicks(part) = <<100, 150>>
    /\ offsets = <<0, 0>>

\* C20 as stated: with min-iat 1000 us the raw part [100, 150] decodes to
\* [0, 100], the earlier tick kept and the close neighbour zeroed.
C20_ExampleAsStated ==
    (min_iat = 1000 /\ StoredTicks(part) = <<100, 150>>) =>
        input_bytes_to_interrupt_times(part, min_iat) = <<0, 100>>

\* ======================================================================
\* One fuzzing iteration: FreeRTOSSystemStateHelper (target_os/freertos)
\* ======================================================================

\* hook invocations over all runs, and runs of the model
MaxCaptures == 5
MaxRuns == 2

\* ---- code layout of the target of the model
\* application code: the entry points of the tasks, a call site of the API
\* function and its return address, an address an interrupt can hit
\* (addresses of the symbols as the fuzzer reads them from the kernel image)
Symbols ==
    [ BootPc |-> 8, AppCall |-> 16, AppRet |-> 20, AppPc |-> 24, BreakPc |-> 128,
      ApiFoo |-> 256, ApiMid |-> 272, ApiEnd |-> 320,
      IsrTick |-> 512, IsrTickEnd |-> 576, IsrPendSV |-> 768, IsrPendSVEnd |-> 832,
      FuzzInput |-> 1024 ]
BootPc == Symbols.BootPc
AppCall == Symbols.AppCall
AppRet == Symbols.AppRet
AppPc == Symbols.AppPc
TaskEntry(t) == IF t = "T1" THEN 32 ELSE 48
\* the API function and an address inside of it
ApiFoo == Symbols.ApiFoo
ApiMid == Symbols.ApiMid
ApiEnd == Symbols.ApiEnd
\* the interrupt handlers
IsrTick == Symbols.IsrTick
IsrTickEnd == Symbols.IsrTickEnd
IsrPendSV == Symbols.IsrPendSV
IsrPendSVEnd == Symbols.IsrPendSVEnd

\* FreeRTOSSystemStateHelper: api_fn_ranges, api_fn_addrs, isr_fn_ranges, isr_fn_addrs
api_fn_ranges == { <<"vTaskDelay", ApiFoo, ApiEnd>> }
api_fn_addrs == [a \in {r[2] : r \in api_fn_ranges} |-> (CHOOSE r \in api_fn_ranges : r[2] = a)[1]]
isr_fn_ranges == { <<"xPortSysTickHandler", IsrTick, IsrTickEnd>>,
                   <<"xPortPendSVHandler", IsrPendSV, IsrPendSVEnd>> }
isr_fn_addrs == [a \in {r[2] : r \in isr_fn_ranges} |-> (CHOOSE r \in isr_fn_ranges : r[2] = a)[1]]
\* app_range: the application code
InAppRange(a) == a < ApiFoo

\* in_any_range: None or <<start of the range that holds addr>>
in_any_range(ranges, addr) ==
    LET hit == {r \in ranges : r[2] <= addr /\ addr < r[3]}
    IN IF hit = {} THEN None ELSE <<(CHOOSE r \in hit : TRUE)[2]>>

\* ---- kernel memory the capture reads: the current TCB ("" is a null
\* pointer), the critical nesting / scheduler lock, the ready lists and how
\* the walk over them ends ("ok", "modified": an item whose container is not
\* the list, "unmapped": a pointer outside of the guest memory)
Mem(tcb, critical, lists, ready) ==
    [tcb |-> tcb, critical |-> critical, lists |-> lists, ready |-> ready]

\* read_freertos_list over the ready lists: <<items, valid>>
read_freertos_list(mem) ==
    IF mem.lists = "modified" THEN << <<>>, FALSE >> ELSE << mem.ready, TRUE >>

\* trigger_collection: <<"push", record>>, <<"skip">> or <<"panic">>
trigger_collection(edge, event, mem, tick) ==
    LET known == CASE event = APIStart -> edge[2] \in DOMAIN api_fn_addrs
                   [] event = APIEnd -> edge[1] \in DOMAIN api_fn_addrs
                   [] event = ISRStart -> edge[2] \in DOMAIN isr_fn_addrs
                   [] event = ISREnd -> edge[1] \in DOMAIN isr_fn_addrs
                   [] OTHER -> TRUE
        name == CASE event = APIStart -> api_fn_addrs[edge[2]]
                  [] event = APIEnd -> api_fn_addrs[edge[1]]
                  [] event = ISRStart -> isr_fn_addrs[edge[2]]
                  [] event = ISREnd -> isr_fn_addrs[edge[1]]
                  [] OTHER -> ""
        walk == event \in {APIStart, APIEnd} \/ ~mem.critical
        list == read_freertos_list(mem)
    IN IF ~known THEN <<"panic">>
       ELSE IF mem.tcb = "" THEN <<"skip">>
       ELSE IF walk /\ mem.lists = "unmapped" THEN <<"panic">>
       ELSE <<"push", [qemu_tick |-> tick,
                       capture_point |-> <<event, name>>,
                       edge |-> edge,
                       task |-> mem.tcb,
                       ready |-> IF walk THEN list[1] ELSE <<>>,
                       read_invalid |-> IF walk THEN ~list[2] ELSE TRUE,
                       mem_reads |-> <<>>]>>

\* gen_jmp_is_syscall: None or <<id>>; indirect tells that the destination is
\* not known when the block is translated (dest == 0)
gen_jmp_is_syscall(src, dest, indirect) ==
    IF ~indirect /\ InAppRange(src) /\ ~InAppRange(dest) /\ in_any_range(isr_fn_ranges, src) = None
    THEN IF in_any_range(api_fn_ranges, dest) # None THEN <<1>> ELSE None
    ELSE IF indirect
         THEN IF in_any_range(api_fn_ranges, src) # None THEN <<2>>
              ELSE IF in_any_range(isr_fn_ranges, src) # None THEN <<3>> ELSE None
         ELSE None

\* trace_jmp: the capture of a classified jump; <<"none">> when it captures nothing
trace_jmp(src, dest, id, mem, tick) ==
    CASE id = 1 -> trigger_collection(<<src, dest>>, APIStart, mem, tick)
      [] id = 2 -> IF in_any_range(api_fn_ranges, dest) = None /\ in_any_range(isr_fn_ranges, dest) = None
                   THEN trigger_collection(<<in_any_range(api_fn_ranges, src)[1], dest>>, APIEnd, mem, tick)
                   ELSE <<"none">>
      [] id = 3 -> trigger_collection(<<in_any_range(isr_fn_ranges, src)[1], dest>>, ISREnd, mem, tick)
      [] OTHER -> <<"none">>

\* exec_isr_hook: src is the return address of the exception stack frame
exec_isr_hook(src, pc, mem, tick) == trigger_collection(<<src, pc>>, ISRStart, mem, tick)


\* ---- the emulator of the model: where the target is, derived from the
\* records captured so far, and the hook invocations it can make next
Other(t) == IF t = "T1" THEN "T2" ELSE "T1"

\* the interrupt handlers entered and not yet left: <<handler address, interrupted pc>>
RECURSIVE IsrStack(_, _, _)
IsrStack(vec, i, st) ==
    IF i > Len(vec) THEN st
    ELSE IF vec[i].capture_point[1] = ISRStart
         THEN IsrStack(vec, i + 1, Append(st, <<vec[i].edge[2], vec[i].edge[1]>>))
         ELSE IF vec[i].capture_point[1] = ISREnd /\ st # <<>>
              THEN IsrStack(vec, i + 1, SubSeq(st, 1, Len(st) - 1))
              ELSE IsrStack(vec, i + 1, st)

\* "boot": nothing captured yet; "isr": inside a handler; "api": inside the
\* API function; "app": in application code
Mode(vec) ==
    IF vec = <<>> THEN "boot"
    ELSE LET last == vec[Len(vec)]
             ev == last.capture_point[1]
         IN IF ev = ISRStart THEN "isr"
            ELSE IF ev = APIStart THEN "api"
            ELSE IF ev = ISREnd /\ in_any_range(api_fn_ranges, last.edge[2]) # None THEN "api"
            ELSE "app"

CurTask(vec) == IF vec = <<>> THEN "T1" ELSE vec[Len(vec)].task

\* a hook invocation: an ISR entry (hook "isr": interrupted pc, handler) or a
\* jump (hook "jmp": source, destination, indirect), the kernel memory at that
\* moment and the instructions executed since the last hook
Step(hook, src, dest, indirect, mem, dt) ==
    [hook |-> hook, src |-> src, dest |-> dest, indirect |-> indirect, mem |-> mem, dt |-> dt]

BootSteps ==
    { \* an API call before the first task exists
      Step("jmp", BootPc, ApiFoo, FALSE, Mem("", FALSE, "ok", <<>>), 10),
      \* the scheduler starts: PendSV is entered, or is left into the first task
      Step("isr", BootPc, IsrPendSV, FALSE, Mem("T1", FALSE, "ok", <<"T1">>), 10),
      Step("jmp", IsrPendSV + 4, TaskEntry("T1"), TRUE, Mem("T1", FALSE, "ok", <<"T1">>), 10) }

AppSteps(t) ==
    { Step("jmp", AppCall, ApiFoo, FALSE, Mem(t, FALSE, "ok", <<t>>), 10),
      \* a jump into the middle of the API function
      Step("jmp", AppCall, ApiMid, FALSE, Mem(t, FALSE, "ok", <<t>>), 10),
      Step("isr", AppPc, IsrTick, FALSE, Mem(t, FALSE, "ok", <<t>>), 0),
      Step("isr", AppPc, IsrTick, FALSE, Mem(t, FALSE, "ok", <<t>>), 10),
      Step("isr", AppPc, IsrPendSV, FALSE, Mem(t, FALSE, "ok", <<t>>), 10) }

ApiSteps(t) ==
    { \* the tick interrupts the API function inside a critical section
      Step("isr", ApiMid, IsrTick, FALSE, Mem(t, TRUE, "ok", <<t>>), 10),
      Step("isr", ApiMid, IsrPendSV, FALSE, Mem(t, FALSE, "ok", <<t>>), 10),
      \* return to the caller, and a return that stays inside the API code
      Step("jmp", ApiMid, AppRet, TRUE, Mem(t, FALSE, "ok", <<t, Other(t)>>), 10),
      Step("jmp", ApiMid, ApiFoo + 8, TRUE, Mem(t, FALSE, "ok", <<t>>), 10) }

IsrSteps(t, top) ==
    IF top[1] = IsrTick
    THEN \* the tick handler made the other task ready and returns to the
         \* interrupted pc; the ready list is intact, being modified, or broken
         { Step("jmp", IsrTick + 4, top[2], TRUE, Mem(t, FALSE, l, <<t, Other(t)>>), 10) :
              l \in {"ok", "modified", "unmapped"} }
    ELSE \* PendSV returns to the interrupted pc or switches to the entry of a task
         { Step("jmp", IsrPendSV + 4, TaskEntry(o), TRUE, Mem(o, FALSE, "ok", <<o>>), 10) :
              o \in TaskNames }
           \cup (IF top[2] = BootPc THEN {}
                 ELSE { Step("jmp", IsrPendSV + 4, top[2], TRUE, Mem(t, FALSE, "ok", <<t>>), 10) })

Steps(vec) ==
    LET m == Mode(vec)
        st == IsrStack(vec, 1, <<>>)
    IN CASE m = "boot" -> BootSteps
         [] m = "app" -> AppSteps(CurTask(vec))
         [] m = "api" -> ApiSteps(CurTask(vec))
         [] OTHER -> IF st = <<>> THEN {} ELSE IsrSteps(CurTask(vec), st[Len(st)])

\* what the hooks do at a step: <<"push", record>>, <<"skip">>, <<"none">> or <<"panic">>
Hooked(st, tick) ==
    IF st.hook = "isr" THEN exec_isr_hook(st.src, st.dest, st.mem, tick)
    ELSE LET id == gen_jmp_is_syscall(st.src, st.dest, st.indirect)
         IN IF id = None THEN <<"none">> ELSE trace_jmp(st.src, st.dest, id[1], st.mem, tick)

\* a vector that is not cleared
VecKeep(v) == v

\* MEM_READ.take().unwrap_or_default()
take_or_default(buf) == IF buf = None THEN <<>> ELSE buf[1]

\* Vec::clear
VecClear(v) == <<>>

\* pre_exec: both buffers are cleared and the trace metadata of the last run
\* is removed; the emulator restarts from its snapshot
PreExec ==
    /\ run_phase = "idle"
    /\ ~host_panic
    /\ nruns < MaxRuns
    /\ sysvec' = VecClear(sysvec)
    /\ jobs_done' = VecClear(jobs_done)
    /\ jobs_run' = VecClear(jobs_run)
    /\ trace_data' = None
    /\ trace' = <<>>
    /\ read_trace' = <<>>
    /\ qemu_icount' = 0
    /\ run_phase' = "running"
    /\ nruns' = nruns + 1
    /\ UNCHANGED <<fbs, last_node_trace, last_edge_trace, last_intervals, stg_map, ncap,
                   releases, responses, job_spans, do_report,
                   host_panic, max_reports, dump_case, solutions, select_task, MEM_READ, nreads, nonRunVars>>

\* The emulator reaches a hooked jump or ISR entry
Hook(st) ==
    /\ run_phase = "running"
    /\ ~host_panic
    /\ ncap < MaxCaptures
    /\ st \in Steps(sysvec)
    /\ LET tick == qemu_icount + st.dt
           out == Hooked(st, tick)
       IN /\ qemu_icount' = tick
          /\ sysvec' = IF out[1] = "push"
                       THEN Append(sysvec, [run |-> nruns, mem_reads |-> take_or_default(MEM_READ)] @@ out[2])
                       ELSE sysvec
          /\ MEM_READ' = IF out[1] = "push" THEN None ELSE MEM_READ
          /\ host_panic' = (out[1] = "panic")
    /\ ncap' = ncap + 1
    /\ UNCHANGED <<fbs, trace, read_trace, last_node_trace, last_edge_trace, last_intervals, stg_map,
                   pairVars, jobs_run, run_phase, nruns, trace_data, max_reports, dump_case, solutions, select_task,
                   nreads,
                   nonRunVars>>

\* job_done_hook: the target reaches the job-done address; tcb "" is a null
\* current TCB pointer
JobDoneHook(tcb) ==
    /\ run_phase = "running"
    /\ ~host_panic
    /\ ncap < MaxCaptures
    /\ Mode(sysvec) \in {"boot", "app"}
    /\ (Mode(sysvec) = "app" => tcb = CurTask(sysvec))
    /\ qemu_icount' = qemu_icount + 10
    /\ jobs_done' = IF tcb = "" THEN jobs_done ELSE Append(jobs_done, <<qemu_icount + 10, tcb>>)
    /\ jobs_run' = IF tcb = "" THEN jobs_run ELSE Append(jobs_run, nruns)
    /\ ncap' = ncap + 1
    /\ UNCHANGED <<fbs, trace, read_trace, last_node_trace, last_edge_trace, last_intervals, stg_map,
                   releases, responses, job_spans, do_report,
                   sysvec, run_phase, nruns, trace_data, host_panic, max_reports, dump_case, solutions, select_task,
                   MEM_READ, nreads,
                   nonRunVars>>

\* ---- refinement of the captured records (qemu_module.rs)
\* refine_system_states: <<states, contexts>>, one of each per raw record
refine_system_states(input) ==
    << [i \in DOMAIN input |-> [task_name |-> input[i].task,
                                ready_list_after |-> input[i].ready,
                                read_invalid |-> input[i].read_invalid]],
       [i \in DOMAIN input |-> [qemu_tick |-> input[i].qemu_tick,
                                capture_point |-> input[i].capture_point,
                                edge |-> input[i].edge,
                                mem_reads |-> input[i].mem_reads,
                                run |-> input[i].run]] >>

\* HashMap insert and remove on a function
MapInsert(m, k, v) == (k :> v) @@ m
MapRemove(m, k) == [x \in DOMAIN m \ {k} |-> m[x]]

\* a level that depends on the start event alone
LevelFlat(ev, curr_name, isr_stack, level_of_task) ==
    <<IF ev = ISRStart THEN 2 ELSE IF ev = APIStart THEN 1 ELSE 0, isr_stack, level_of_task>>

\* states2intervals, the level of interval i: <<level, isr_stack, level_of_task>>
LevelOf(ev, curr_name, isr_stack, level_of_task) ==
    LET lot0 == IF curr_name \in DOMAIN level_of_task THEN level_of_task
                ELSE MapInsert(level_of_task, curr_name, 0)
    IN CASE ev = APIEnd -> <<0, isr_stack, MapInsert(lot0, curr_name, 0)>>
         [] ev = APIStart -> <<1, isr_stack, MapInsert(lot0, curr_name, 1)>>
         [] ev = ISREnd ->
              IF Len(isr_stack) > 1
              THEN LET popped == SubSeq(isr_stack, 1, Len(isr_stack) - 1)
                   IN <<popped[Len(popped)], popped, lot0>>
              ELSE <<lot0[curr_name], <<>>, lot0>>
         [] ev = ISRStart ->
              IF Len(isr_stack) > 0
              THEN LET l == isr_stack[Len(isr_stack)]
                   IN <<l + 1, Append(isr_stack, l + 1), level_of_task>>
              ELSE <<2, Append(isr_stack, 2), level_of_task>>
         [] OTHER -> <<100, isr_stack, level_of_task>>

\* start and end tick of interval i, with the ticks exchanged
IntervalTicksSwapped(ctx, i) == <<ctx[i + 1].qemu_tick, ctx[i].qemu_tick>>

\* states2intervals: start_tick and end_tick of interval i
IntervalTicks(ctx, i) == <<ctx[i].qemu_tick, ctx[i + 1].qemu_tick>>

\* states2intervals, the loop over the records; i is the 1-based index.  An
\* interval of the model also carries its entry of `edges` and the runs its
\* two records were captured in
RECURSIVE IntervalLoop(_, _, _, _)
IntervalLoop(i, states, ctx, acc) ==
    IF i > Len(states) - 1 THEN acc
    ELSE LET curr_name == states[i].task_name
             lv == LevelOf(ctx[i].capture_point[1], curr_name, acc.isr_stack, acc.level_of_task)
             next_hash == compute_hash(states[i + 1])
             iv == [start_tick |-> IntervalTicks(ctx, i)[1],
                    end_tick |-> IntervalTicks(ctx, i)[2],
                    start_state |-> acc.last_hash,
                    end_state |-> next_hash,
                    start_capture |-> ctx[i].capture_point,
                    end_capture |-> ctx[i + 1].capture_point,
                    level |-> lv[1],
                    abb |-> None,
                    edge |-> <<ctx[i].edge[2], ctx[i + 1].edge[1]>>,
                    runs |-> {ctx[i].run, ctx[i + 1].run}]
         IN IntervalLoop(i + 1, states, ctx,
                [isr_stack |-> lv[2],
                 level_of_task |-> lv[3],
                 ret |-> Append(acc.ret, iv),
                 reads |-> Append(acc.reads, ctx[i + 1].mem_reads),
                 edges |-> Append(acc.edges, <<ctx[i].edge[2], ctx[i + 1].edge[1]>>),
                 last_hash |-> next_hash,
                 table |-> IF next_hash \in DOMAIN acc.table THEN acc.table
                           ELSE MapInsert(acc.table, next_hash, states[i + 1])])

\* add_abb_info, the ABB level of an interval
AbbLevel(level) == IF level < 2 THEN level ELSE 2

\* an ABB as add_abb_info creates it
NewAbb(start, level, id, name) ==
    [start |-> start, ends |-> {}, level |-> AbbLevel(level), instance_id |-> id,
     instance_name |-> name]

\* a continued block without start that leaves the result as it is
UnmatchedKeepsRet(ret) == ret

\* add_abb_info, "continued block with no start": ret = false
UnmatchedRet(ret) == FALSE

\* a continuation that does not register the ABB at its own exit address
ContinueWithoutReopen(acc, edge, key, open_abb) ==
    [acc EXCEPT !.wip = Append(@, acc.wip[open_abb[1]]),
                !.open = MapRemove(@, <<edge[1], key>>)]

\* add_abb_info, ISREnd with an open ABB at the address returned to: the
\* interval gets the ABB of the interrupted interval, which stays open under
\* the exit address of this interval
ContinueAbb(acc, edge, key, open_abb) ==
    [acc EXCEPT !.wip = Append(@, acc.wip[open_abb[1]]),
                !.open = MapInsert(MapRemove(@, <<edge[1], key>>),
                                   <<edge[2], key>>, open_abb[1])]

\* add_abb_info, the block start of interval i.  acc = [id_count, ret,
\* task_has_started, cells (the shared ABBs, cell id + 1 = position), wip (the
\* cell of every interval), open (open_abb_at_this_ret_addr_and_task), panic]
AbbStart(acc, i, iv, edge, curr_name) ==
    LET key == IF iv.level < 2 THEN curr_name ELSE ""
        ev == iv.start_capture[1]
        open_abb == IF <<edge[1], key>> \in DOMAIN acc.open THEN <<acc.open[<<edge[1], key>>]>> ELSE None
        fresh(start, name, ok) ==
            [acc EXCEPT !.ret = @ /\ ok,
                        !.cells = Append(@, NewAbb(start, iv.level, acc.id_count, name)),
                        !.wip = Append(@, Len(acc.cells) + 1),
                        !.id_count = @ + 1]
    IN CASE ev \in {APIStart, ISRStart} ->
              [fresh(edge[1], iv.start_capture[2], open_abb = None)
                 EXCEPT !.open = MapInsert(@, <<edge[2], key>>, i)]
         [] ev = APIEnd ->
              [fresh(edge[1], IF iv.level < 2 THEN curr_name ELSE NoName, open_abb = None)
                 EXCEPT !.open = MapInsert(@, <<edge[2], key>>, i)]
         [] ev = ISREnd ->
              IF iv.start_capture[2] = "xPortPendSVHandler" /\ curr_name \notin acc.task_has_started
              THEN [fresh(0, curr_name, open_abb = None)
                      EXCEPT !.open = MapInsert(@, <<edge[2], key>>, i),
                             !.task_has_started = @ \cup {curr_name}]
              ELSE IF open_abb # None
                   THEN ContinueAbb(acc, edge, key, open_abb)
                   ELSE fresh(edge[2], IF iv.level < 1 THEN curr_name ELSE NoName,
                              UnmatchedRet(acc.ret))
         [] OTHER -> [acc EXCEPT !.panic = TRUE, !.wip = Append(@, 0)]

\* a block end that only closes the ABB
AbbEndNoInsert(acc, i, iv, edge, curr_name) ==
    [acc EXCEPT !.open = MapRemove(@, <<edge[2], IF iv.level < 2 THEN curr_name ELSE "">>)]

\* add_abb_info, the block end of interval i
AbbEnd(acc, i, iv, edge, curr_name) ==
    LET key == IF iv.level < 2 THEN curr_name ELSE ""
        ev == iv.end_capture[1]
    IN IF acc.panic THEN acc
       ELSE CASE ev \in {APIStart, APIEnd, ISREnd, End} ->
                   [acc EXCEPT !.cells[acc.wip[i]].ends = @ \cup {edge[2]},
                               !.open = MapRemove(@, <<edge[2], key>>)]
              [] ev = ISRStart -> acc
              [] OTHER -> [acc EXCEPT !.panic = TRUE]

RECURSIVE AbbLoop(_, _, _, _, _)
AbbLoop(i, tr, table, edges, acc) ==
    IF i > Len(tr) \/ acc.panic THEN acc
    ELSE LET curr_name == table[tr[i].start_state].task_name
         IN AbbLoop(i + 1, tr, table, edges,
                    AbbEnd(AbbStart(acc, i, tr[i], edges[i], curr_name), i, tr[i], edges[i], curr_name))

\* add_abb_info: [trace, ret, panic]; every interval gets a copy of its ABB
add_abb_info(tr, table, edges) ==
    LET acc0 == [id_count |-> 0, ret |-> TRUE, task_has_started |-> {}, cells |-> <<>>,
                 wip |-> <<>>, open |-> <<>>, panic |-> FALSE]
        acc == AbbLoop(1, tr, table, edges, acc0)
    IN [trace |-> IF acc.panic THEN tr
                  ELSE [i \in DOMAIN tr |-> [tr[i] EXCEPT !.abb = acc.cells[acc.wip[i]]]],
        ret |-> acc.ret,
        panic |-> acc.panic]

\* states2intervals: [intervals, reads, table, success, panic]
states2intervals(states, ctx) ==
    IF Len(states) = 0
    THEN [intervals |-> <<>>, reads |-> <<>>, table |-> <<>>, success |-> TRUE, panic |-> FALSE]
    ELSE LET h0 == compute_hash(states[1])
             acc0 == [isr_stack |-> <<>>, level_of_task |-> <<>>, ret |-> <<>>, reads |-> <<>>,
                      edges |-> <<>>, last_hash |-> h0, table |-> MapInsert(<<>>, h0, states[1])]
             acc == IntervalLoop(1, states, ctx, acc0)
             t == add_abb_info(acc.ret, acc.table, acc.edges)
         IN [intervals |-> t.trace, reads |-> acc.reads, table |-> acc.table,
             success |-> t.ret, panic |-> t.panic]

\* ---- get_releases (qemu_module.rs)
\* smallest element of a set of indices, None for the empty set
FirstOf(S) == IF S = {} THEN None ELSE <<CHOOSE x \in S : \A y \in S : x <= y>>

\* the tasks of `after` that became ready: not the listed current tasks and
\* not in the ready list `before`; one (tick, task) each, in list order
NewlyReady(after, before, not_these, tick) ==
    LET keep(x) == x \notin not_these /\ x \notin Range(before)
        picked == SelectSeq(after, keep)
    IN [k \in DOMAIN picked |-> <<tick, picked[k]>>]

\* the timed release rule for interval n (an ISRStart of the tick handler)
TimedRelease(tr, states, n) ==
    LET i == tr[n]
        start_state == states[i.start_state]
        rel(s, e) == NewlyReady(e.ready_list_after, s.ready_list_after,
                                {e.task_name, s.task_name}, i.end_tick)
    IN IF start_state.read_invalid
       THEN \* race: take the nearest valid states around the interval
            LET start_index == IF {k \in 2 .. n - 1 : ~states[tr[k].start_state].read_invalid} = {}
                               THEN None
                               ELSE <<CHOOSE k \in 2 .. n - 1 :
                                         /\ ~states[tr[k].start_state].read_invalid
                                         /\ \A o \in k + 1 .. n - 1 : states[tr[o].start_state].read_invalid>>
                end_index == FirstOf({k \in n + 1 .. Len(tr) : ~states[tr[k].end_state].read_invalid})
            IN IF start_index # None /\ end_index # None
               THEN rel(states[tr[start_index[1]].start_state], states[tr[end_index[1]].end_state])
               ELSE <<>>
       ELSE IF i.end_capture[1] = ISREnd
       THEN rel(start_state, states[i.end_state])
       ELSE IF i.end_capture[1] = ISRStart
       THEN \* nested interrupts: the end of the first handler or the first valid state after it
            LET ended == FirstOf({k \in n + 1 .. Len(tr) : tr[k].end_capture[2] = i.start_capture[2]})
                valid == IF ended = None THEN None
                         ELSE FirstOf({k \in ended[1] .. Len(tr) : ~states[tr[k].end_state].read_invalid})
            IN IF valid = None THEN <<>> ELSE rel(start_state, states[tr[valid[1]].end_state])
       ELSE <<>>

\* the release rule for interval n that starts with an API call
ApiRelease(tr, states, n) ==
    LET i == tr[n]
        api_start_state == states[i.start_state]
        stop(k) == \/ tr[k].end_capture[1] \in {APIEnd, End}
                   \/ (k > n /\ tr[k].level = 0)
        first == FirstOf({k \in n .. Len(tr) : stop(k)})
        end_index == IF first = None THEN n
                     ELSE IF tr[first[1]].end_capture[1] \in {APIEnd, End} THEN first[1]
                     ELSE first[1] - 1
        api_end_state == states[tr[end_index].end_state]
    IN NewlyReady(api_end_state.ready_list_after, api_start_state.ready_list_after,
                  {api_start_state.task_name}, i.end_tick)

RECURSIVE ReleaseLoop(_, _, _, _, _)
ReleaseLoop(n, tr, states, initial_released, ret) ==
    IF n > Len(tr) THEN ret
    ELSE LET i == tr[n]
         IN IF ~initial_released /\ i.start_capture = <<ISREnd, "xPortPendSVHandler">>
            THEN LET ready == states[i.start_state].ready_list_after
                 IN ReleaseLoop(n + 1, tr, states, TRUE,
                                ret \o [k \in DOMAIN ready |-> <<i.start_tick, ready[k]>>])
            ELSE LET timed == IF i.start_capture = <<ISRStart, "xPortSysTickHandler">>
                              THEN TimedRelease(tr, states, n) ELSE <<>>
                     api == IF i.start_capture[1] = APIStart THEN ApiRelease(tr, states, n) ELSE <<>>
                 IN ReleaseLoop(n + 1, tr, states, initial_released, ret \o timed \o api)

\* get_releases: (tick, task) of every task release found in the trace
get_releases(tr, states) == ReleaseLoop(1, tr, states, FALSE, <<>>)

\* post_exec, the jobs: one per (release, response, task) with the ticks of
\* the intervals of that task that overlap the job
JobsOf(spans, intervals) ==
    [k \in DOMAIN spans |->
        LET x == spans[k]
            mine(y) == y.start_tick <= x[2] /\ y.end_tick >= x[1] /\ y.abb.instance_name = x[3]
            ivs == SelectSeq(intervals, mine)
            RECURSIVE Sum(_)
            Sum(q) == IF q = <<>> THEN 0 ELSE get_exec_time(q[1]) + Sum(Tail(q))
        IN [name |-> x[3], release |-> x[1], response |-> x[2], exec_ticks |-> Sum(ivs)]]

\* the pc the run stops at
BreakPc == Symbols.BreakPc

\* post_exec, "find the first ISREnd of the context switch and drop anything
\* before": the 1-based position, Len + 1 if there is none
FirstSwitch(vec) ==
    LET hit == FirstOf({i \in DOMAIN vec : vec[i].capture_point = <<ISREnd, "xPortPendSVHandler">>})
    IN IF hit = None THEN Len(vec) + 1 ELSE hit[1]

\* a copy of the vector that leaves it as it is
CloneAll(v) == <<v, v>>

\* Vec::split_off(0): <<what stays in the vector, what is returned>>
split_off(v) == << <<>>, v >>

\* post_exec up to the refinement: the End capture, the last record rewritten,
\* the records before the first context switch dropped
FinalVec(vec, tick) ==
    LET out == trigger_collection(<<0, 0>>, End,
                                  Mem(CurTask(vec), FALSE, "ok", <<CurTask(vec)>>), tick)
        v1 == IF out[1] = "push"
              THEN Append(vec, [run |-> nruns, mem_reads |-> take_or_default(MEM_READ)] @@ out[2])
              ELSE vec
        v2 == [v1 EXCEPT ![Len(v1)].edge = <<BreakPc, 0>>,
                         ![Len(v1)].capture_point = <<End, "Breakpoint">>]
    IN [panic |-> out[1] = "panic", pushed |-> out[1] = "push",
        vec |-> SubSeq(v2, FirstSwitch(v2), Len(v2))]

\* post_exec
PostExec ==
    /\ run_phase = "running"
    /\ ~host_panic
    /\ run_phase' = "post"
    /\ IF Len(sysvec) = 0
       THEN \* "No system states captured, aborting"
            UNCHANGED <<sysvec, jobs_done, jobs_run, trace, read_trace, trace_data,
                        releases, responses, job_spans, do_report, host_panic, MEM_READ>>
       ELSE \E fin \in {FinalVec(sysvec, qemu_icount)} :
            /\ MEM_READ' = IF fin.pushed THEN None ELSE MEM_READ
            /\ IF fin.panic
               THEN /\ host_panic' = TRUE
                    /\ UNCHANGED <<sysvec, jobs_done, jobs_run, trace, read_trace, trace_data,
                                   releases, responses, job_spans, do_report>>
               ELSE IF Len(fin.vec) = 1
               THEN /\ sysvec' = fin.vec
                    /\ UNCHANGED <<jobs_done, jobs_run, trace, read_trace, trace_data,
                                   releases, responses, job_spans, do_report, host_panic>>
               ELSE \E refined \in {refine_system_states(split_off(fin.vec)[2])} :
                    \E r \in {states2intervals(refined[1], refined[2])} :
                    \E rel \in {IF r.panic THEN <<>> ELSE get_releases(r.intervals, r.table)} :
                    \E prs \in {get_release_response_pairs(rel, split_off(jobs_done)[2])} :
                       /\ sysvec' = split_off(fin.vec)[1]
                       /\ host_panic' = r.panic
                       /\ IF r.panic
                          THEN UNCHANGED <<jobs_done, jobs_run, trace, read_trace, trace_data,
                                           releases, responses, job_spans, do_report>>
                          ELSE /\ jobs_done' = split_off(jobs_done)[1]
                               /\ jobs_run' = split_off(jobs_run)[1]
                               /\ releases' = rel
                               /\ responses' = split_off(jobs_done)[2]
                               /\ job_spans' = <<prs[1]>>
                               /\ do_report' = prs[2]
                               /\ trace' = r.intervals
                               /\ read_trace' = r.reads
                               /\ trace_data' = << [states_map |-> r.table,
                                                    jobs |-> JobsOf(prs[1], r.intervals),
                                                    need_to_debug |-> ~r.success \/ prs[2],
                                                    run |-> nruns,
                                                    response_runs |-> Range(jobs_run)] >>
    /\ UNCHANGED <<fbs, last_node_trace, last_edge_trace, last_intervals, stg_map, ncap,
                   qemu_icount, nruns, max_reports, dump_case, solutions, select_task, nreads, nonRunVars>>

\* The fuzzer evaluates the run: the objective (CrashFeedback, TimeoutFeedback,
\* then SystraceErrorFeedback, combined with feedback_or_fast) and, unless the
\* objective takes the input, the feedback (StgFeedback).  exit_ok tells that
\* the run ended with ExitKind::Ok
\* SystraceErrorFeedback::new(.., Some(10)): the report budget
MAX_REPORTS == 10
\* the budget left when the model starts: a fresh feedback, and one that has
\* made all but one of its reports
ReportsLeft == {1, MAX_REPORTS}

\* a report that is made whatever budget is left
SystraceIgnoresBudget(m, dump, need) == <<dump /\ need, IF need /\ m > 0 THEN m - 1 ELSE m>>

\* SystraceErrorFeedback::is_interesting (feature trace_stg) on a trace whose
\* need_to_debug is `need`: <<result, max_reports afterwards>>
SystraceErrorFeedback(m, dump, need) ==
    IF m <= 0 THEN <<FALSE, m>>
    ELSE <<dump /\ need, IF need THEN m - 1 ELSE m>>

\* RTOSJob::response_time
job_response_time(job) == job.response - job.release

\* worst_jobs_per_task_by_response_time().get(select_task): the first job of
\* the task with the largest response time, if a task is selected and has a job
RECURSIVE WorstFrom(_, _, _, _)
WorstFrom(jobs, k, task, old) ==
    IF k > Len(jobs) THEN old
    ELSE IF jobs[k].name # task THEN WorstFrom(jobs, k + 1, task, old)
    ELSE IF old = None \/ job_response_time(jobs[k]) > job_response_time(old[1])
         THEN WorstFrom(jobs, k + 1, task, <<jobs[k]>>)
         ELSE WorstFrom(jobs, k + 1, task, old)

worst_job_by_response_time(jobs, sel) ==
    IF sel = None THEN None ELSE WorstFrom(jobs, 1, sel[1], None)

\* is_interesting: with a worst job of the selected task, the (index, tick)
\* entries with release <= tick <= response; with a selected task without
\* job, nothing; without selected task, everything
SelectEntries(entries, sel, worst) ==
    IF worst # None
    THEN SelectSeq(entries, LAMBDA x : x[2] <= worst[1].response /\ x[2] >= worst[1].release)
    ELSE IF sel # None THEN <<>> ELSE entries

\* is_interesting: the intervals whose ABBs are hashed
SelectIntervals(tr, sel, worst) ==
    IF worst # None
    THEN SelectSeq(tr, LAMBDA x : x.start_tick < worst[1].response /\ x.end_tick > worst[1].release)
    ELSE IF sel # None THEN <<>> ELSE tr

EvaluateRun(exit_ok) ==
    /\ run_phase = "post"
    /\ ~host_panic
    /\ run_phase' = "idle"
    /\ LET verdictOf == SystraceErrorFeedback(max_reports, dump_case, trace_data[1].need_to_debug)
           objective == verdictOf[1]
       IN IF ~exit_ok
          THEN UNCHANGED <<fbs, last_node_trace, last_edge_trace, last_intervals, stg_map, max_reports,
                           host_panic, solutions>>
          ELSE IF trace_data = None
          THEN \* .expect("TraceData not found")
               /\ host_panic' = TRUE
               /\ UNCHANGED <<fbs, last_node_trace, last_edge_trace, last_intervals, stg_map, max_reports,
                               solutions>>
          ELSE /\ host_panic' = FALSE
               /\ max_reports' = verdictOf[2]
               /\ solutions' = IF objective THEN solutions + 1 ELSE solutions
               /\ IF objective
                  THEN UNCHANGED <<fbs, last_node_trace, last_edge_trace, last_intervals, stg_map>>
                  ELSE \E r \in {update_stg_interval(trace, read_trace, trace_data[1].states_map, fbs)} :
                       \E worst_select_job \in {worst_job_by_response_time(trace_data[1].jobs, select_task)} :
                       \E nodetrace \in {SelectEntries(r.node_trace, select_task, worst_select_job)} :
                       \E edgetrace \in {SelectEntries(r.edge_trace, select_task, worst_select_job)} :
                       LET last_runtime == IF select_task = None THEN qemu_icount
                                           ELSE IF worst_select_job = None THEN 0
                                           ELSE job_response_time(worst_select_job[1])
                           tmp == SelectIntervals(trace, select_task, worst_select_job)
                       IN /\ fbs' = update_worts(r.fbs, edgetrace, tmp, last_runtime)
                          /\ last_node_trace' = [i \in DOMAIN nodetrace |-> nodetrace[i][1]]
                          /\ last_edge_trace' = [i \in DOMAIN edgetrace |-> edgetrace[i][1]]
                          /\ stg_map' = set_observer_map(stg_map, [i \in DOMAIN edgetrace |-> edgetrace[i][1]])
                          /\ last_intervals' = trace
    /\ UNCHANGED <<trace, read_trace, ncap, pairVars, sysvec, jobs_run, qemu_icount, nruns,
                   trace_data, dump_case, select_task, MEM_READ, nreads, nonRunVars>>

RunInit ==
    /\ fbs = DefaultFbs
    /\ StgIdle
    /\ IrqIdle
    /\ PruneIdle
    /\ PairIdle
    /\ CmpIdle
    /\ SnipIdle
    /\ GenIdle
    /\ sysvec = <<>>
    /\ jobs_run = <<>>
    /\ qemu_icount = 0
    /\ run_phase = "idle"
    /\ nruns = 0
    /\ trace_data = None
    /\ host_panic = FALSE
    /\ select_task = None
    /\ MEM_READ = None
    /\ nreads = 0
    /\ dump_case \in BOOLEAN
    /\ max_reports \in ReportsLeft
    /\ solutions = (IF dump_case THEN MAX_REPORTS - max_reports ELSE 0)

RunNext ==
    \/ PreExec
    \/ \E st \in Steps(sysvec) : Hook(st)
    \/ \E tcb \in {"", "T1"} : JobDoneHook(tcb)
    \/ PostExec
    \/ \E exit_ok \in BOOLEAN : EvaluateRun(exit_ok)

SpecRun == RunInit /\ [][RunNext]_vars

\* the iteration with a select-task configured (fuzzer.rs: --select-task)
SelectInit ==
    /\ fbs = DefaultFbs
    /\ StgIdle
    /\ IrqIdle
    /\ PruneIdle
    /\ PairIdle
    /\ CmpIdle
    /\ SnipIdle
    /\ GenIdle
    /\ sysvec = <<>>
    /\ jobs_run = <<>>
    /\ qemu_icount = 0
    /\ run_phase = "idle"
    /\ nruns = 0
    /\ trace_data = None
    /\ host_panic = FALSE
    /\ select_task = <<"T1">>
    /\ MEM_READ = None
    /\ nreads = 0
    /\ dump_case = TRUE
    /\ max_reports = MAX_REPORTS
    /\ solutions = 0

SelectNext ==
    \/ PreExec
    \/ \E st \in Steps(sysvec) : Hook(st)
    \/ \E tcb \in {"", "T1"} : JobDoneHook(tcb)
    \/ PostExec
    \/ \E exit_ok \in BOOLEAN : EvaluateRun(exit_ok)

SpecSelect == SelectInit /\ [][SelectNext]_vars

\* ---- the reads of the fuzz input (qemu_module.rs: trace_reads)
\* reads of the model
MaxReads == 1

\* the input buffer of the target and the region the hook records
FUZZ_INPUT == Symbols.FuzzInput
INPUT_MEM == FUZZ_INPUT .. FUZZ_INPUT + 1

\* the byte the guest memory holds at an address of the region
GuestByte(addr) == addr % 2

\* trace_reads: the target reads one byte at addr
trace_reads(buf, addr) ==
    IF addr \in INPUT_MEM
    THEN IF buf = None THEN << << <<addr, GuestByte(addr)>> >> >>
         ELSE << Append(buf[1], <<addr, GuestByte(addr)>>) >>
    ELSE buf

TraceReads(addr) ==
    /\ run_phase = "running"
    /\ ~host_panic
    /\ nreads < MaxReads
    /\ MEM_READ' = trace_reads(MEM_READ, addr)
    /\ nreads' = nreads + 1
    /\ UNCHANGED <<fbs, stgOnlyVars, pairVars, sysvec, jobs_run, qemu_icount, run_phase, nruns, trace_data,
                   host_panic, max_reports, dump_case, solutions, select_task, nonRunVars>>

ReadsInit ==
    /\ RunInit
    /\ dump_case
    /\ max_reports = MAX_REPORTS

ReadsNext ==
    \/ PreExec
    \/ \E st \in Steps(sysvec) : Hook(st)
    \/ \E tcb \in {"", "T1"} : JobDoneHook(tcb)
    \/ PostExec
    \/ \E exit_ok \in BOOLEAN : EvaluateRun(exit_ok)
    \/ \E addr \in INPUT_MEM : TraceReads(addr)

SpecReads == ReadsInit /\ [][ReadsNext]_vars

\* ------------------------------------------------------------------------
\* Properties of the refined trace and of the iteration (SpecRun)
\* ------------------------------------------------------------------------
\* a trace was stored for the run
Stored == trace_data # None

\* C12: every interval of a stored trace has start_tick <= end_tick (a
\* non-negative get_exec_time), and the intervals are time-ordered: interval k
\* ends no later than interval k + 1 starts.
C12_IntervalsTimeOrdered ==
    Stored =>
        /\ \A i \in DOMAIN trace :
              trace[i].start_tick <= trace[i].end_tick /\ get_exec_time(trace[i]) >= 0
        /\ \A k \in 1 .. Len(trace) - 1 : trace[k].end_tick <= trace[k + 1].start_tick

\* C12 witness: a stored trace of at least three intervals, one of them of
\* length zero and one of positive length
C12_Witness ==
    /\ Stored
    /\ Len(trace) >= 3
    /\ \E i, j \in DOMAIN trace : get_exec_time(trace[i]) = 0 /\ get_exec_time(trace[j]) > 0

\* the events that end an ABB
AbbEndEvents == {APIStart, APIEnd, ISREnd, End}

\* C13: every ABB the refiner attaches has level 0, 1 or 2, and its ends hold
\* the exit pc of every interval of the same instance that ended with
\* APIStart, APIEnd, ISREnd or End.
C13_AbbLevelAndEnds ==
    Stored =>
        \A i \in DOMAIN trace :
            /\ trace[i].abb.level \in {0, 1, 2}
            /\ \A j \in DOMAIN trace :
                  (trace[j].abb.instance_id = trace[i].abb.instance_id
                     /\ trace[j].end_capture[1] \in AbbEndEvents)
                  => trace[j].edge[2] \in trace[i].abb.ends

\* C13 witness: an ABB instance that spans two intervals, interrupted by a
\* handler, and whose ends hold the exit pc of its second interval
C13_Witness ==
    /\ Stored
    /\ \E i, j \in DOMAIN trace :
          /\ i + 1 < j
          /\ trace[i].abb.instance_id = trace[j].abb.instance_id
          /\ trace[i].end_capture[1] = ISRStart
          /\ trace[j].end_capture[1] \in AbbEndEvents
          /\ trace[j].edge[2] \in trace[i].abb.ends

\* task of the state an interval starts in
TaskOf(i) == trace_data[1].states_map[trace[i].start_state].task_name

\* interval i is the first one of its task that starts with the return of
\* the context switch handler
FirstStart(i) ==
    /\ trace[i].start_capture = <<ISREnd, "xPortPendSVHandler">>
    /\ \A j \in 1 .. i - 1 :
          ~(trace[j].start_capture = <<ISREnd, "xPortPendSVHandler">> /\ TaskOf(j) = TaskOf(i))

\* interval i begins with an ISREnd that continues no open ABB: it is not the
\* start of a task and its ABB is not the one of an earlier interval
Unmatched(i) ==
    /\ trace[i].start_capture[1] = ISREnd
    /\ ~FirstStart(i)
    /\ \A j \in 1 .. i - 1 : trace[j].abb.instance_id # trace[i].abb.instance_id

\* C14: when an interval begins with an ISREnd and no ABB is open for the
\* address returned to, the run still completes: the trace is stored with
\* need_to_debug set, every interval has an ABB, and neither post_exec nor the
\* evaluation of the run aborts.
C14_UnmatchedReturnFlagged ==
    (Stored /\ \E i \in DOMAIN trace : Unmatched(i)) =>
        /\ trace_data[1].need_to_debug
        /\ \A i \in DOMAIN trace : trace[i].abb # None /\ trace[i].abb.instance_id >= 0
        /\ ~host_panic

\* C14 witness: such a run has been evaluated
C14_Witness ==
    /\ Stored
    /\ run_phase = "idle"
    /\ ~host_panic
    /\ \E i \in DOMAIN trace : Unmatched(i)
    /\ trace_data[1].need_to_debug

\* the captures APIStart, ISRStart, ISREnd, APIEnd start the intervals k .. k + 3,
\* the handler returning to the interrupted pc
NestedCall(k) ==
    /\ k + 3 <= Len(trace)
    /\ trace[k].start_capture[1] = APIStart
    /\ trace[k + 1].start_capture[1] = ISRStart
    /\ trace[k + 2].start_capture[1] = ISREnd
    /\ trace[k + 3].start_capture[1] = APIEnd
    /\ trace[k + 2].edge[1] = trace[k].edge[2]

\* C15 (as the code refines): for the captures APIStart(foo), ISRStart(tick),
\* ISREnd(tick), APIEnd(foo) the four intervals that start at them have the
\* levels 1, 2, 1, 0; the interval after the ISREnd continues the ABB of the
\* interval after the APIStart (same instance, found by the return address),
\* the handler interval and the interval after the APIEnd have ABBs of their own.
C15_NestedCallLevels ==
    Stored =>
        \A k \in DOMAIN trace :
            NestedCall(k) =>
                /\ <<trace[k].level, trace[k + 1].level, trace[k + 2].level, trace[k + 3].level>>
                     = <<1, 2, 1, 0>>
                /\ trace[k + 2].abb = trace[k].abb
                /\ trace[k + 1].abb.instance_id # trace[k].abb.instance_id
                /\ trace[k + 3].abb.instance_id \notin
                     {trace[k].abb.instance_id, trace[k + 1].abb.instance_id}
                /\ trace[k].abb.level = 1 /\ trace[k + 1].abb.level = 2 /\ trace[k + 3].abb.level = 0

\* C15 witness: the stored trace of PendSV return, APIStart, ISRStart, ISREnd,
\* APIEnd and the end of the run
C15_Witness ==
    /\ Stored
    /\ Len(trace) = 5
    /\ NestedCall(2)
    /\ [i \in 1 .. 5 |-> trace[i].level] = <<0, 1, 2, 1, 0>>

\* C15 as stated: the four intervals have the levels 1, 2, 2, 1 and the middle
\* two share the ABB identity of the outer two.
C15_LevelsAsStated ==
    Stored =>
        \A k \in DOMAIN trace :
            NestedCall(k) =>
                /\ <<trace[k].level, trace[k + 1].level, trace[k + 2].level, trace[k + 3].level>>
                     = <<1, 2, 2, 1>>
                /\ trace[k + 1].abb.instance_id = trace[k].abb.instance_id
                /\ trace[k + 2].abb.instance_id = trace[k + 3].abb.instance_id

\* C16: the capture buffers live within one run.  While a run executes, every
\* raw record and every job-done marker in the buffers was captured in this
\* run; a stored trace is built from records and markers of its own run only;
\* and the post_exec that stores a trace leaves both buffers empty.
C16_BuffersLiveWithinOneRun ==
    /\ run_phase = "running" =>
          /\ \A i \in DOMAIN sysvec : sysvec[i].run = nruns
          /\ \A i \in DOMAIN jobs_run : jobs_run[i] = nruns
          /\ Len(jobs_run) = Len(jobs_done)
    /\ Stored =>
          /\ \A i \in DOMAIN trace : trace[i].runs = {trace_data[1].run}
          /\ trace_data[1].response_runs \subseteq {trace_data[1].run}
          /\ trace_data[1].run = nruns
          /\ sysvec = <<>> /\ jobs_done = <<>>

\* C16 witness: the second run stored a trace with a job-done marker after a
\* first run
C16_Witness ==
    /\ nruns = 2
    /\ Stored
    /\ Len(trace) >= 1
    /\ responses # <<>>
    /\ trace_data[1].response_runs = {2}

\* C17: a capture never aborts the fuzzer: a hook either appends exactly one
\* raw record or leaves the buffer as it is, and a failed list walk shows only
\* as read_invalid with the list empty.
C17_CaptureNeverPanics ==
    /\ (run_phase = "running" => ~host_panic)
    /\ \A i \in DOMAIN sysvec : sysvec[i].read_invalid => sysvec[i].ready = <<>>

\* C18: a run whose capture buffer holds no return of the context switch
\* handler (an empty buffer included) is discarded and the iteration completes:
\* post_exec and the evaluation of objective and feedback do not abort, and the
\* run contributes no intervals and no jobs.
C18_TooShortRunCompletes ==
    (run_phase \in {"post", "idle"} /\ nruns > 0 /\ trace = <<>>) =>
        /\ ~host_panic
        /\ Stored => trace_data[1].jobs = <<>>

\* ------------------------------------------------------------------------
\* Coercion of early interrupt ticks (SpecIrq)
\* ------------------------------------------------------------------------
\* every entry is 0 or at least FIRST_INT
ZeroOrLate(ts) == \A i \in 1 .. Len(ts) : ts[i] = 0 \/ ts[i] >= FIRST_INT

\* C21: a stored tick below FIRST_INT is read as 0 and a stored tick of at
\* least FIRST_INT is read unchanged; every entry of a decoded vector, and of
\* the schedule the harness installs, is 0 or at least FIRST_INT.
C21_EarlyTicksCoerced ==
    /\ \A b \in {part} \cup (IF submitted = None THEN {} ELSE {submitted[1]}) :
          /\ ZeroOrLate(input_bytes_to_interrupt_times(b, min_iat))
          /\ \A i \in 1 .. Len(ReadTicks(b)) :
                ReadTicks(b)[i] = (IF StoredTicks(b)[i] >= FIRST_INT THEN StoredTicks(b)[i] ELSE 0)
    /\ ZeroOrLate(offsets)

\* C21 witness: the harness ran a part that stores a tick below FIRST_INT and
\* the tick FIRST_INT: the first was installed as 0, the second unchanged
C21_Witness ==
    /\ min_iat = 0
    /\ StoredTicks(part) = <<100000, FIRST_INT>>
    /\ submitted = None
    /\ offsets = <<0, FIRST_INT>>

\* ------------------------------------------------------------------------
\* Equality of STG nodes (SpecStg)
\* ------------------------------------------------------------------------
\* C22: two nodes of the graph are equal exactly when their state hashes and
\* their ABBs are both equal, and nodes that are equal have the same node
\* hash (get_hash), the key of stgnode_index.
C22_NodeEqualityBothComponents ==
    \A i \in NodeIndices(fbs), j \in NodeIndices(fbs) :
        LET a == NodeAt(fbs, i)
            b == NodeAt(fbs, j)
        IN /\ STGNodeEq(a, b) <=> (a.state = b.state /\ AbbEq(a.abb, b.abb))
           /\ STGNodeEq(a, b) => STGNodeHash(a) = STGNodeHash(b)

\* ======================================================================
\* Equality and hash of the refined kernel state (target_os/freertos/mod.rs)
\* ======================================================================
\* RefinedTCB without the notify fields (the features do_hash_notify_state
\* and do_hash_notify_value are off)
RefinedTCB(name, prio, base, held) ==
    [task_name |-> name, priority |-> prio, base_priority |-> base, mutexes_held |-> held]

\* PartialEq for RefinedTCB
RefinedTCBEq(a, b) ==
    /\ a.task_name = b.task_name
    /\ a.priority = b.priority
    /\ a.base_priority = b.base_priority

\* Hash for RefinedTCB: the values fed to the hasher, in order
RefinedTCBHash(a) == <<a.task_name, a.priority, a.mutexes_held>>

\* Vec<RefinedTCB> == Vec<RefinedTCB>
TcbListEq(x, y) == Len(x) = Len(y) /\ \A i \in 1 .. Len(x) : RefinedTCBEq(x[i], y[i])
\* Vec<RefinedTCB>::hash: the length, then the elements
TcbListHash(x) == <<Len(x), [i \in 1 .. Len(x) |-> RefinedTCBHash(x[i])]>>

\* PartialEq for FreeRTOSSystemState
FreeRTOSSystemStateEq(a, b) ==
    /\ RefinedTCBEq(a.current_task, b.current_task)
    /\ TcbListEq(a.ready_list_after, b.ready_list_after)
    /\ TcbListEq(a.delay_list_after, b.delay_list_after)
    /\ a.read_invalid = b.read_invalid

\* Hash for FreeRTOSSystemState; the digest is modelled collision-free as the
\* sequence of the values fed to the hasher
FreeRTOSSystemStateHash(a) ==
    <<RefinedTCBHash(a.current_task), TcbListHash(a.ready_list_after),
      TcbListHash(a.delay_list_after), a.read_invalid>>

\* ---- inputs: the kernel states that are compared
CmpTcbs == {RefinedTCB(n, p, b, h) : n \in TaskNames, p \in {1, 2}, b \in {1, 2}, h \in {0, 1}}
CmpLists == {<<>>, <<RefinedTCB("T2", 1, 1, 0)>>, <<RefinedTCB("T2", 1, 1, 1)>>}
CmpStates ==
    [current_task : CmpTcbs, ready_list_after : CmpLists,
     delay_list_after : {<<>>, <<RefinedTCB("T1", 2, 1, 0)>>}, read_invalid : BOOLEAN]

\* lhs == rhs, and compute_hash of both
Compare ==
    /\ verdict = None
    /\ verdict' = <<[eq |-> FreeRTOSSystemStateEq(lhs, rhs),
                     hash_eq |-> FreeRTOSSystemStateHash(lhs) = FreeRTOSSystemStateHash(rhs)]>>
    /\ UNCHANGED <<lhs, rhs, nonCmpVars>>

CmpInit ==
    /\ fbs = DefaultFbs
    /\ StgIdle
    /\ IrqIdle
    /\ PruneIdle
    /\ PairIdle
    /\ RunIdle
    /\ SnipIdle
    /\ GenIdle
    /\ lhs \in CmpStates
    /\ rhs \in CmpStates
    /\ verdict = None

CmpNext == Compare

SpecState == CmpInit /\ [][CmpNext]_vars

\* ---- comparison of two AtomicBasicBlocks (systemstate/mod.rs)
\* the ABBs compared: one start with no, one or two ends, two levels and two
\* instance names, and the ABB of an interrupt handler
CmpAbbs ==
    [start : {16}, ends : {{}, {32}, {48}, {32, 48}}, level : {0, 1}, instance_id : {0},
     instance_name : {"T1", "T2"}] \cup {AbbIsr}

\* a.cmp(&b), b.cmp(&a) and a == b
CompareAbbs ==
    /\ verdict = None
    /\ \E r \in AbbCmpOutcomes(lhs, rhs) : \E q \in AbbCmpOutcomes(rhs, lhs) :
          verdict' = <<[cmp |-> r, rev |-> q, eq |-> AbbEq(lhs, rhs)]>>
    /\ UNCHANGED <<lhs, rhs, nonCmpVars>>

AbbOrdInit ==
    /\ fbs = DefaultFbs
    /\ StgIdle
    /\ IrqIdle
    /\ PruneIdle
    /\ PairIdle
    /\ RunIdle
    /\ SnipIdle
    /\ GenIdle
    /\ lhs \in CmpAbbs
    /\ rhs \in CmpAbbs
    /\ verdict = None

AbbOrdNext == CompareAbbs

SpecAbbOrd == AbbOrdInit /\ [][AbbOrdNext]_vars

\* C23: two refined kernel states are equal exactly when the current task
\* (name, base priority, effective priority, mutexes held), the ready list,
\* the delay list and read_invalid are all equal, and equal states (and equal
\* RefinedTCBs) have equal hashes.
C23_StateEqHashStructural ==
    verdict # None =>
        /\ verdict[1].eq <=> (lhs = rhs)
        /\ verdict[1].eq => verdict[1].hash_eq
        /\ RefinedTCBEq(lhs.current_task, rhs.current_task)
              => RefinedTCBHash(lhs.current_task) = RefinedTCBHash(rhs.current_task)

\* ======================================================================
\* Worst runtime per path over whole runs (systemstate/stg.rs)
\* ======================================================================
\* intervals captured over all runs of this model
MaxPathCaptures == 4

\* a second app ABB of T1: same start and level as AbbApp0, another end
AbbAppAlt == [start |-> 16, ends |-> {48}, level |-> 0, instance_id |-> 2, instance_name |-> "T1"]
\* an API ABB of T1
AbbApi == [start |-> 256, ends |-> {288}, level |-> 1, instance_id |-> 4, instance_name |-> "xQueueSend"]
PathKinds ==
    { <<HashT1, AbbApp0, <<APIEnd, "xQueueSend">> >>,
      <<HashT1, AbbAppAlt, <<APIEnd, "xQueueSend">> >>,
      <<HashT1, AbbApi, <<APIStart, "xQueueSend">> >> }

\* lengths of the intervals: two captures at one instruction count leave an
\* interval of length 0; the first interval of a trace is then an interval
\* from tick 0 to tick 0, which is what ExecInterval::invaildate leaves
PathDurations == {0} \cup Durations

\* the traces a run of at most two intervals can leave
RunTraces ==
    {<<>>}
      \cup {AppendInterval(<<>>, k, d) : k \in PathKinds, d \in PathDurations}
      \cup {AppendInterval(AppendInterval(<<>>, k[1], d[1]), k[2], d[2]) :
              k \in PathKinds \X PathKinds, d \in PathDurations \X PathDurations}

\* The emulator executes a whole run: the intervals of the run are captured
RunTrace(tr) ==
    /\ trace = <<>>
    /\ tr # <<>>
    /\ ncap + Len(tr) <= MaxPathCaptures
    /\ trace' = tr
    /\ read_trace' = [i \in 1 .. Len(tr) |-> ReadsOf(get_exec_time(tr[i]))]
    /\ ncap' = ncap + Len(tr)
    /\ UNCHANGED <<fbs, last_node_trace, last_edge_trace, last_intervals, stg_map, nonStgVars>>

PathInit == StgInit

PathNext ==
    \/ \E tr \in RunTraces : RunTrace(tr)
    \/ Observe

SpecPath == PathInit /\ [][PathNext]_vars

\* b is a with the ABBs at two positions exchanged, the two being distinct
SwappedAbbs(a, b) ==
    /\ Len(a) = Len(b)
    /\ \E i \in 1 .. Len(a), j \in 1 .. Len(a) :
          /\ i < j
          /\ ~AbbEq(a[i], a[j])
          /\ AbbVecHash(b) = AbbVecHash([a EXCEPT ![i] = a[j], ![j] = a[i]])

\* C24: when the ABB sequence of the run just captured is the ABB sequence
\* of the run observed before with two distinct ABBs exchanged, the two runs
\* have the same key in wort_per_aggregated_path and different keys in
\* wort_per_abb_path.
C24_OrderOnlyInAbbPath ==
    SwappedAbbs(abbs_in_exec_order(last_intervals), abbs_in_exec_order(trace)) =>
        /\ aggregate_key(last_intervals) = aggregate_key(trace)
        /\ abbs_hash(last_intervals) # abbs_hash(trace)

\* no entry of the map is lost and no entry decreases
WortGrows(old, new) ==
    /\ DOMAIN old \subseteq DOMAIN new
    /\ \A k \in DOMAIN old : new[k] >= old[k]

\* the entry of key k is the maximum of its old value and t, the rest is unchanged
WortIsMaxAt(old, new, k, t) ==
    /\ DOMAIN new = DOMAIN old \cup {k}
    /\ new[k] = (IF k \in DOMAIN old THEN Max(old[k], t) ELSE t)
    /\ \A o \in DOMAIN old : o # k => new[o] = old[o]

\* runtime of a run, as the clock observer of the model reports it
RuntimeOf(tr) == IF tr = <<>> THEN 0 ELSE tr[Len(tr)].end_tick

\* C25: over any sequence of observed runs, the worst overall runtime and the
\* entries of wort_per_stg_path, wort_per_abb_path and wort_per_aggregated_path
\* never decrease, and observing a run sets the entry of its key in each map
\* to the maximum of the old entry and the runtime of the run (the runtime
\* itself for a new key) and leaves every other entry as it is.
C25_WortsUpdatedWithMax ==
    [][ /\ fbs'.wort >= fbs.wort
        /\ WortGrows(fbs.wort_per_stg_path, fbs'.wort_per_stg_path)
        /\ WortGrows(fbs.wort_per_abb_path, fbs'.wort_per_abb_path)
        /\ WortGrows(fbs.wort_per_aggegated_path, fbs'.wort_per_aggegated_path)
        /\ (trace' = <<>> /\ last_intervals' = trace) =>
              /\ fbs'.wort = Max(fbs.wort, RuntimeOf(trace))
              /\ WortIsMaxAt(fbs.wort_per_stg_path, fbs'.wort_per_stg_path,
                             update_stg_interval(trace, read_trace, StateTable, fbs).edge_trace,
                             RuntimeOf(trace))
              /\ WortIsMaxAt(fbs.wort_per_abb_path, fbs'.wort_per_abb_path,
                             abbs_hash(trace), RuntimeOf(trace))
              /\ WortIsMaxAt(fbs.wort_per_aggegated_path, fbs'.wort_per_aggegated_path,
                             aggregate_key(trace), RuntimeOf(trace))
      ]_vars

\* C25 witness: the run observed last was shorter than an earlier run with
\* the same ABB path and the same aggregated path; the entries of its keys
\* and the worst overall runtime still hold the longer runtime
C25_Witness ==
    /\ last_intervals # <<>>
    /\ trace = <<>>
    /\ abbs_hash(last_intervals) \in DOMAIN fbs.wort_per_abb_path
    /\ fbs.wort_per_abb_path[abbs_hash(last_intervals)] > RuntimeOf(last_intervals)
    /\ fbs.wort_per_aggegated_path[aggregate_key(last_intervals)] > RuntimeOf(last_intervals)
    /\ fbs.wort > RuntimeOf(last_intervals)
    /\ \E k \in DOMAIN fbs.wort_per_stg_path : fbs.wort_per_stg_path[k] > RuntimeOf(last_intervals)

\* ------------------------------------------------------------------------
\* Report budget of the error feedback (SpecRun)
\* ------------------------------------------------------------------------
\* C26: SystraceErrorFeedback makes a trace an objective only if the trace
\* is marked need_to_debug, dump_case is set and the report budget is not
\* zero; each such report takes one from the budget, the budget never goes
\* below zero, and over all runs at most MAX_REPORTS traces are reported.
C26_ReportsWithinBudget ==
    [][ /\ solutions' >= solutions
        /\ max_reports' >= 0
        /\ solutions' + max_reports' <= MAX_REPORTS
        /\ solutions' # solutions =>
              /\ solutions' = solutions + 1
              /\ max_reports > 0
              /\ max_reports' = max_reports - 1
              /\ dump_case
              /\ trace_data # None
              /\ trace_data[1].need_to_debug
      ]_vars

\* C26 witness: the last report of the budget was made for the first run;
\* the second run left a trace marked need_to_debug as well, which was
\* evaluated with the budget at zero and went on to the STG feedback
C26_Witness ==
    /\ run_phase = "idle"
    /\ nruns = 2
    /\ ~host_panic
    /\ max_reports = 0
    /\ solutions = MAX_REPORTS
    /\ trace_data # None
    /\ trace_data[1].need_to_debug
    /\ trace_data[1].run = 2
    /\ fbs.wort_per_stg_path # <<>>

\* ------------------------------------------------------------------------
\* Runs that leave no records to refine (SpecRun)
\* ------------------------------------------------------------------------
\* the graph and the state index of the feedback state
GraphOf(f) == <<f.nodes, f.edges, f.systemstate_index, f.stgnode_index, f.state_abb_hash_index>>

\* C27: when no record is left to refine, states2intervals returns no
\* interval (and no reads and no state), and the STG feedback that observes
\* the empty trace adds no node, no edge and no state to its feedback state.
C27_EmptyTraceAddsNothing ==
    [][ /\ (/\ run_phase = "running" /\ run_phase' = "post" /\ ~host_panic'
            /\ sysvec # <<>> /\ FinalVec(sysvec, qemu_icount).vec = <<>>)
              => /\ trace' = <<>>
                 /\ read_trace' = <<>>
                 /\ trace_data' # None
                 /\ trace_data'[1].states_map = <<>>
                 /\ trace_data'[1].jobs = <<>>
        /\ (run_phase = "post" /\ run_phase' = "idle" /\ trace = <<>>)
              => GraphOf(fbs') = GraphOf(fbs)
      ]_vars

\* C27 witness: a run whose records were all dropped stored an empty trace,
\* the STG feedback observed it, and the graph is still the initial one
C27_Witness ==
    /\ run_phase = "idle"
    /\ nruns = 1
    /\ ~host_panic
    /\ trace_data # None
    /\ trace_data[1].states_map = <<>>
    /\ trace = <<>>
    /\ fbs.wort_per_stg_path # <<>>
    /\ GraphOf(fbs) = GraphOf(DefaultFbs)

\* ------------------------------------------------------------------------
\* Intervals from tick 0 to tick 0 (SpecPath)
\* ------------------------------------------------------------------------
\* positions of the valid intervals of a trace
ValidAt(tr) == {i \in 1 .. Len(tr) : is_valid(tr[i])}
\* the entries of a sequence at the positions of the valid intervals of tr
OnlyValid(tr, seq) ==
    LET RECURSIVE Pick(_)
        Pick(i) == IF i > Len(tr) THEN <<>>
                   ELSE (IF i \in ValidAt(tr) THEN <<seq[i]>> ELSE <<>>) \o Pick(i + 1)
    IN Pick(1)

ResumesAt(i, j) ==
    /\ j = i + 2
    /\ j <= Len(trace)
    /\ trace[i].level < 2
    /\ trace[i].end_capture[1] = ISRStart
    /\ trace[j].start_capture[1] = ISREnd
    /\ trace[j].edge[1] = trace[i].edge[2]
    /\ TaskOf(j) = TaskOf(i)

response_time(span) == span[2] - span[1]

\* C30: for tick-ordered release and response lists every job span
\* (release, response, task) has release <= response, so its response time is
\* not negative, and spans of one task do not overlap: a later
\* span of the task is released no earlier than the earlier span's response.
C30_SpansOrderedAndDisjoint ==
    job_spans # None =>
        LET spans == job_spans[1]
        IN  /\ \A k \in DOMAIN spans :
                  /\ spans[k][1] <= spans[k][2]
                  /\ response_time(spans[k]) >= 0
            /\ \A k \in DOMAIN spans, l \in DOMAIN spans :
                  (k < l /\ spans[k][3] = spans[l][3]) => spans[l][1] >= spans[k][2]

\* three spans, two of them of one task, one paired with a release and one
\* with the last response, while a later release of the task was recorded
C30_Witness ==
    /\ job_spans # None
    /\ Len(job_spans[1]) = 3
    /\ Len(releases) = 3
    /\ \E k \in 1 .. 3, l \in 1 .. 3 :
          /\ k < l
          /\ job_spans[1][k][3] = job_spans[1][l][3]
          /\ job_spans[1][k][1] < job_spans[1][k][2]
          /\ job_spans[1][l][1] = job_spans[1][k][2]
          /\ job_spans[1][l][1] < job_spans[1][l][2]
          /\ \E i \in DOMAIN releases :
                /\ releases[i][2] = job_spans[1][l][3]
                /\ releases[i][1] >= job_spans[1][l][2]

\* ---- observing one trace twice (stg.rs: update_stg_interval) ----

\* the result of observing the pending trace on the feedback state f
ObservedOn(f) == update_stg_interval(trace, read_trace, StateTable, f)

\* C31: the node trace and the edge trace returned for an interval trace do
\* not depend on the edges the STG holds already: observing the pending trace
\* and then the identical trace again returns the same node trace and the
\* same edge trace, the final edge into the exit node included, hence the
\* same key of wort_per_stg_path.
C31_EdgeTraceIndependentOfGraph ==
    trace # <<>> =>
        LET first == ObservedOn(fbs)
            second == ObservedOn(first.fbs)
        IN  /\ second.node_trace = first.node_trace
            /\ second.edge_trace = first.edge_trace

\* ---- the observer map after an observation (stg.rs: set_observer_map) ----

\* times edge e occurs in the edge trace last observed
Traversals(e) == Cardinality({k \in DOMAIN last_edge_trace : last_edge_trace[k] = e})

\* C32: after each observation the observer map holds for every edge id the
\* number of traversals of that edge in the trace just observed (saturating
\* at u16::MAX), 0 for every edge not traversed, and every entry written lies
\* inside the array.
C32_ObserverMapCountsLastTrace ==
    /\ \A e \in EdgeIndices(fbs) \cup DOMAIN stg_map.map :
          MapAt(stg_map, e) = Min(Traversals(e), U16_MAX)
    /\ \A e \in DOMAIN stg_map.map : e < STG_MAP_SIZE

\* ---- releases by API calls (qemu_module.rs: get_releases) ----

\* the interval whose end is the APIEnd capture that closes the API call
\* started with interval n, if the call is closed within the trace
ApiCallEnd(n) == FirstOf({k \in n .. Len(trace) : trace[k].end_capture[1] = APIEnd})

\* the tasks ready at the end of interval k that were not ready at the
\* start of interval n
BecameReady(n, k) ==
    Range(trace_data[1].states_map[trace[k].end_state].ready_list_after)
        \ Range(trace_data[1].states_map[trace[n].start_state].ready_list_after)

\* C33: every task that is in the ready list at the end of an API call and
\* was not in the ready list before the call is released at the tick of the
\* APIEnd capture that closes the call, also when the call was interrupted
\* between its APIStart and its APIEnd.
C33_ApiReleaseAtApiEndTick ==
    Stored =>
        \A n \in DOMAIN trace :
            (trace[n].start_capture[1] = APIStart /\ ApiCallEnd(n) # None) =>
                \A task \in BecameReady(n, ApiCallEnd(n)[1]) :
                    <<trace[ApiCallEnd(n)[1]].end_tick, task>> \in Range(releases)

\* ---- the traces returned with a select-task (stg.rs: is_interesting) ----

\* the worst job of the selected task in the stored trace
WorstSelected == worst_job_by_response_time(trace_data[1].jobs, select_task)

\* the interval and the window [release, response] of the job share a tick
Overlaps(iv, job) == iv.start_tick <= job.response /\ iv.end_tick >= job.release

\* a step in which StgFeedback evaluated the stored trace
FeedbackRan ==
    /\ run_phase = "post"
    /\ run_phase' = "idle"
    /\ Stored
    /\ <<fbs, last_node_trace, last_edge_trace, stg_map>>' # <<fbs, last_node_trace, last_edge_trace, stg_map>>

\* C34: with a select-task that has a worst job in the trace, the node trace
\* and the edge trace returned hold the entries of exactly the intervals that
\* overlap the window [release, response] of that job: the entry of an
\* interval is kept if and only if the interval overlaps the window.
C34_SelectKeepsOverlapping ==
    [][ (FeedbackRan /\ select_task # None /\ WorstSelected # None) =>
            LET r == update_stg_interval(trace, read_trace, trace_data[1].states_map, fbs)
                job == WorstSelected[1]
                nodes == SelectEntries(r.node_trace, select_task, WorstSelected)
                edges == SelectEntries(r.edge_trace, select_task, WorstSelected)
                kept(x) == SelectEntries(<<x>>, select_task, WorstSelected) # <<>>
            IN  /\ last_node_trace' = [i \in DOMAIN nodes |-> nodes[i][1]]
                /\ last_edge_trace' = [i \in DOMAIN edges |-> edges[i][1]]
                /\ \A k \in DOMAIN trace :
                      /\ kept(r.node_trace[k + 1]) <=> Overlaps(trace[k], job)
                      /\ kept(r.edge_trace[k]) <=> Overlaps(trace[k], job) ]_vars

\* ---- target new branches (mutational.rs: try_force_new_branches) ----

\* the ticks the stage decoded from the part of the current testcase
OldTicks == input_bytes_to_interrupt_times(part, min_iat)

\* the intervals of the testcase's trace that are suitable for tick num: they
\* start in [T[num-1] + min_iat, T[num + 1]), are no interrupt handler, and
\* their STG node has no outgoing ISRStart edge of a non-tick source
SuitableFor(ticks, num) ==
    LET lower_bound == IF num = 1 THEN FIRST_INT ELSE SatAdd(ticks[num - 1], MinIatTicks(min_iat))
        next == IF Len(ticks) > num THEN ticks[num + 1] ELSE TICK_MAX
        ok(x) == /\ x.start_tick >= lower_bound
                 /\ x.start_tick < next
                 /\ x.start_capture[1] # ISRStart
                 /\ ~has_interrupt_handler_non_systick(fbs, fbs.state_abb_hash_index[get_hash_index(x)])
    IN  SelectSeq(meta[1], ok)

\* the first tick position that has a suitable interval
ForcedAt(ticks) == FirstOf({num \in DOMAIN ticks : SuitableFor(ticks, num) # <<>>})

\* the stage took the target-new-branches step and found an interval
BranchForced == branch = "branches" /\ submitted # None /\ meta # None

\* C35: when target-new-branches finds a suitable interval for tick T[k],
\* the rescheduled T[k] lies inside the tick range of that interval, and the
\* vector handed on keeps the new T[k] with its successor at least min_iat
\* (in ticks) later, the old T[k + 1] being dropped otherwise.
C35_ForcedTickInsideInterval ==
    BranchForced =>
        LET k == ForcedAt(OldTicks)[1]
            iv == SuitableFor(OldTicks, k)[1]
            res == StoredTicks(submitted[1])
        IN  /\ Len(res) >= k
            /\ iv.start_tick <= res[k] /\ res[k] <= iv.end_tick
            /\ Len(res) > k => res[k + 1] - res[k] >= MinIatTicks(min_iat)

\* ======================================================================
\* Snippet stage (mutational.rs: STGSnippetStage, mod.rs: map_bytes_onto)
\* ======================================================================
\* reads per job of the model
MaxSnipReads == 2

\* address of FUZZ_INPUT in the target and the input region INPUT_MEM behind it
SnipInputAddr == FUZZ_INPUT
SnipRegion == SnipInputAddr .. SnipInputAddr + 2

SnipBytes == {0, 1}
\* the "bytes" part: no byte, one byte or two
SnipParts == {<<>>} \cup {<<a>> : a \in SnipBytes} \cup {<<a, b>> : a, b \in SnipBytes}

\* sequences of up to n elements of S
RECURSIVE SeqsUpTo(_, _)
SeqsUpTo(S, n) ==
    IF n = 0 THEN {<<>>}
    ELSE LET shorter == SeqsUpTo(S, n - 1)
         IN  shorter \cup {Append(q, x) : q \in {y \in shorter : Len(y) = n - 1}, x \in S}

\* memory reads a job of the testcase can have recorded: (addr, byte) inside
\* the input region; inside the part the byte read is the byte of the part
SnipReads(bytes) ==
    {r \in SeqsUpTo(SnipRegion \X SnipBytes, MaxSnipReads) :
        \A i \in DOMAIN r :
            r[i][1] - SnipInputAddr < Len(bytes) => r[i][2] = bytes[r[i][1] - SnipInputAddr + 1]}

\* a second job of the testcase: one read of the first byte of the region
SnipSecondJob(bytes) ==
    [hash |-> 2, mem_reads |-> << <<SnipInputAddr, IF bytes = <<>> THEN 0 ELSE bytes[1]>> >>]

\* RTOSTask::map_bytes_onto: the (addr - offset, worst byte) of the reads
\* whose byte differs from the worst-seen byte at the same position
map_bytes_onto(woet_bytes, mem_reads, offset) ==
    IF Len(mem_reads) = 0 THEN <<>>
    ELSE LET n == Min(Len(mem_reads), Len(woet_bytes))
             differs(idx) == woet_bytes[idx] # mem_reads[idx][2]
             RECURSIVE Collect(_)
             Collect(idx) ==
                 IF idx > n THEN <<>>
                 ELSE (IF differs(idx) THEN << <<mem_reads[idx][1] - offset, woet_bytes[idx]>> >>
                       ELSE <<>>) \o Collect(idx + 1)
         IN  Collect(1)

\* `if (addr as usize) < new_bytes.len() { new_bytes[addr] = byte }` for
\* every edit in order
RECURSIVE ApplyEdits(_, _)
ApplyEdits(bytes, edits) ==
    IF edits = <<>> THEN bytes
    ELSE LET ed == edits[1]
         IN  ApplyEdits(IF ed[1] < Len(bytes) THEN [bytes EXCEPT ![ed[1] + 1] = ed[2]] ELSE bytes,
                        Tail(edits))

\* the edits of all jobs of the testcase that have a worst job recorded
RECURSIVE SnipEdits(_, _)
SnipEdits(jobs, worst) ==
    IF jobs = <<>> THEN <<>>
    ELSE (IF jobs[1].hash \in DOMAIN worst
          THEN map_bytes_onto(worst[jobs[1].hash], jobs[1].mem_reads, SnipInputAddr)
          ELSE <<>>) \o SnipEdits(Tail(jobs), worst)

\* `do_rerun |= new.len() > 0` for every job
RerunWanted(jobs, worst) == SnipEdits(jobs, worst) # <<>>

\* STGSnippetStage::perform
SnippetPerform ==
    /\ snip_result = None
    /\ snip_input # None
    /\ LET edits == IF snip_jobs = None THEN <<>> ELSE SnipEdits(snip_jobs[1], snip_worst)
           do_rerun == snip_jobs # None /\ RerunWanted(snip_jobs[1], snip_worst)
       IN  snip_result' = <<[input |-> [snip_input EXCEPT !.bytes = ApplyEdits(@, edits)],
                             rerun |-> do_rerun]>>
    /\ UNCHANGED <<snip_input, snip_jobs, snip_worst, nonSnipVars>>

SnipInit ==
    /\ fbs = DefaultFbs
    /\ StgIdle
    /\ IrqIdle
    /\ PruneIdle
    /\ PairIdle
    /\ RunIdle
    /\ CmpIdle
    /\ GenIdle
    /\ \E bytes \in SnipParts :
          /\ snip_input = [bytes |-> bytes, isr_0_times |-> to_le_bytes(FIRST_INT)]
          /\ \/ snip_jobs = None
             \/ \E r \in SnipReads(bytes) :
                   \/ snip_jobs = << <<[hash |-> 1, mem_reads |-> r]>> >>
                   \/ snip_jobs = << <<[hash |-> 1, mem_reads |-> r], SnipSecondJob(bytes)>> >>
    /\ \E w \in SeqsUpTo(SnipBytes, 2) :
          \/ snip_worst = (1 :> w)
          \/ snip_worst = (1 :> w) @@ (2 :> <<1>>)
          \/ snip_worst = <<>>
    /\ snip_result = None

SnipNext == SnippetPerform

SpecSnippet == SnipInit /\ [][SnipNext]_vars

\* the offsets of the edits that lie inside the "bytes" part
EditsInBounds ==
    IF snip_jobs = None THEN {}
    ELSE {ed \in Range(SnipEdits(snip_jobs[1], snip_worst)) : ed[1] < Len(snip_input.bytes)}

\* C36: the snippet stage changes the input only by writing worst-seen bytes
\* at offsets addr - input_addr below the length of the "bytes" part: the
\* length of the part and every other part stay, an edit with an offset out
\* of bounds is not applied, and the input is rerun if and only if at least
\* one edit was made.
C36_SnippetEditsInsideBytes ==
    snip_result # None =>
        LET new == snip_result[1].input
        IN  /\ Len(new.bytes) = Len(snip_input.bytes)
            /\ new.isr_0_times = snip_input.isr_0_times
            /\ \A p \in DOMAIN new.bytes :
                  new.bytes[p] # snip_input.bytes[p] =>
                      \E ed \in EditsInBounds : ed[1] = p - 1 /\ ed[2] = new.bytes[p]
            /\ snip_result[1].rerun <=> EditsInBounds # {}

\* a capture pushes a raw record
CapturePushed == run_phase = "running" /\ run_phase' = "running" /\ Len(sysvec') = Len(sysvec) + 1

\* C37: every fuzz-input read the hook recorded is attached to the next raw
\* record captured in the same run, and to that one only: a capture that
\* pushes a record takes the whole buffer and leaves it empty, and no read is
\* pending when the next run starts, also after a skipped capture or a run
\* that ended without a final capture.
C37_ReadsStayInRun ==
    [][ /\ CapturePushed =>
              /\ sysvec'[Len(sysvec')].mem_reads = take_or_default(MEM_READ)
              /\ MEM_READ' = None
        /\ (run_phase = "idle" /\ run_phase' = "running") => take_or_default(MEM_READ) = <<>> ]_vars

\* the rows the configuration names
ConfiguredRows == {interrupt_config[k][1] : k \in DOMAIN interrupt_config}

\* C38: for every input and every interrupt configuration the harness writes
\* the decoded interrupt times only inside the schedule array of
\* NUM_INTERRUPT_SOURCES rows of MAX_NUM_INTERRUPT entries: every configured
\* source index it uses as a row is below NUM_INTERRUPT_SOURCES, at most
\* MAX_NUM_INTERRUPT ticks are written per source, and the interrupt count of
\* a source is the number of ticks written for it.
C38_ScheduleInsideArray ==
    harness_state # "idle" =>
        /\ harness_state = "done"
        /\ \A i \in ConfiguredRows :
              /\ i < NUM_INTERRUPT_SOURCES
              /\ Len(libafl_interrupt_offsets[i]) <= MAX_NUM_INTERRUPT
              /\ libafl_num_interrupts[i] = Len(libafl_interrupt_offsets[i])

\* ======================================================================
\* Generation scheduler (schedulers.rs: GenerationScheduler)
\* ======================================================================
\* testcases added to the corpus in a behaviour
MaxGenAdds == 4

\* exec times of the testcases, in nanoseconds
ExecTimes == {1, 2, 3}

\* GenerationScheduler::new: gen_size by build feature (gensize_1, none)
GenSizes == {1, 100}

\* MaxTimeFavFactor::compute
MaxTimeFavFactor(exec_time) == 0 - exec_time

\* GeneticMetadata::new
GeneticMetadata(current_gen, next_gen) ==
    [current_gen |-> current_gen, current_cursor |-> 0, next_gen |-> next_gen, gen |-> 0]

\* stable insertion of x into a sequence sorted by the field f of its pairs
RECURSIVE InsertByField(_, _, _)
InsertByField(sorted, x, f) ==
    IF sorted = <<>> THEN <<x>>
    ELSE IF x[f] >= sorted[Len(sorted)][f] THEN Append(sorted, x)
    ELSE Append(InsertByField(SubSeq(sorted, 1, Len(sorted) - 1), x, f), sorted[Len(sorted)])

\* Vec::sort_by comparing the field f: stable, ascending
RECURSIVE SortByField(_, _, _)
SortByField(v, acc, f) ==
    IF v = <<>> THEN acc ELSE SortByField(Tail(v), InsertByField(acc, v[1], f), f)

\* `sort_by(|a, b| a.1.partial_cmp(&b.1))`: by fav factor
SortByFavFactor(v) == SortByField(v, <<>>, 2)

\* `sort_by(|a, b| a.0.cmp(&b.0))`: by corpus id
SortByCorpusId(v) == SortByField(v, <<>>, 1)

\* the corpus with one id removed
CorpusRemove(c, id) == [i \in DOMAIN c \ {id} |-> c[i]]

RECURSIVE CorpusRemoveAll(_, _)
CorpusRemoveAll(c, ids) ==
    IF ids = <<>> THEN c ELSE CorpusRemoveAll(CorpusRemove(c, ids[1][1]), Tail(ids))

\* GenerationScheduler::next at a generation switch (match arm Option::None)
\* up to the removal from the corpus
SwitchGeneration(g, size) ==
    LET sorted == SortByFavFactor(g.next_gen)
        keep == Min(Len(sorted), size)
        d == SubSeq(sorted, keep + 1, Len(sorted))
        current == SortByCorpusId(SubSeq(sorted, 1, keep))
    IN [empty |-> Len(sorted) = 0,
        to_remove |-> g.current_gen \o d,
        gm |-> [current_gen |-> current, current_cursor |-> 1, next_gen |-> <<>>, gen |-> g.gen + 1]]

\* the fuzzer adds a testcase to the corpus; Scheduler::on_add
OnAdd(exec_time) ==
    /\ ~gen_panic
    /\ gen_count < MaxGenAdds
    /\ LET idx == gen_count
           ff == MaxTimeFavFactor(exec_time)
       IN /\ gen_corpus' = (idx :> exec_time) @@ gen_corpus
          /\ gm' = IF gm # None
                   THEN <<[gm[1] EXCEPT !.next_gen = Append(@, <<idx, ff>>)]>>
                   ELSE <<GeneticMetadata(<<>>, << <<idx, ff>> >>)>>
    /\ gen_count' = gen_count + 1
    /\ gen_returned' = None
    /\ UNCHANGED <<gen_panic, gen_size, nonGenVars>>

\* Scheduler::next
SchedNext ==
    /\ ~gen_panic
    /\ DOMAIN gen_corpus # {}
    /\ IF gm = None
       THEN \* expect("Corpus Scheduler empty")
            /\ gen_panic' = TRUE
            /\ gen_returned' = None
            /\ UNCHANGED <<gen_corpus, gm>>
       ELSE IF gm[1].current_cursor + 1 \in DOMAIN gm[1].current_gen
       THEN /\ gm' = <<[gm[1] EXCEPT !.current_cursor = @ + 1]>>
            /\ gen_returned' = <<[id |-> gm[1].current_gen[gm[1].current_cursor + 1][1],
                                  switched |-> FALSE, added |-> <<>>, previous |-> <<>>]>>
            /\ UNCHANGED <<gen_corpus, gen_panic>>
       ELSE LET sw == SwitchGeneration(gm[1], gen_size)
                corpus_len == Cardinality(DOMAIN gen_corpus)
                _current_len == Len(sw.gm.current_gen)
                removable == \A k \in DOMAIN sw.to_remove : sw.to_remove[k][1] \in DOMAIN gen_corpus
                cm == CorpusRemoveAll(gen_corpus, sw.to_remove)
            IN IF sw.empty
               THEN \* panic!("Corpus is empty")
                    /\ gen_panic' = TRUE
                    /\ gm' = <<[gm[1] EXCEPT !.current_gen = <<>>, !.next_gen = <<>>]>>
                    /\ gen_returned' = None
                    /\ UNCHANGED gen_corpus
               ELSE IF corpus_len - Len(sw.to_remove) # _current_len \/ ~removable
               THEN \* assert_eq!(corpus_len-to_remove.len(), _current_len), remove().unwrap()
                    /\ gen_panic' = TRUE
                    /\ gm' = <<sw.gm>>
                    /\ gen_returned' = None
                    /\ UNCHANGED gen_corpus
               ELSE /\ gm' = <<sw.gm>>
                    /\ gen_corpus' = cm
                    /\ gen_panic' = (sw.gm.current_gen[1][1] \notin DOMAIN cm)
                    /\ gen_returned' = <<[id |-> sw.gm.current_gen[1][1], switched |-> TRUE,
                                          added |-> gm[1].next_gen, previous |-> gm[1].current_gen]>>
    /\ UNCHANGED <<gen_count, gen_size, nonGenVars>>

GenInit ==
    /\ fbs = DefaultFbs
    /\ StgIdle
    /\ IrqIdle
    /\ PruneIdle
    /\ PairIdle
    /\ RunIdle
    /\ CmpIdle
    /\ SnipIdle
    /\ gen_corpus = <<>>
    /\ gm = None
    /\ gen_count = 0
    /\ gen_panic = FALSE
    /\ gen_returned = None
    /\ gen_size \in GenSizes

GenNext ==
    \/ \E t \in ExecTimes : OnAdd(t)
    \/ SchedNext

SpecGen == GenInit /\ [][GenNext]_vars

\* ids of a generation
GenIds(v) == {v[k][1] : k \in DOMAIN v}

\* the generation a switch chose holds the at most gen_size entries added
\* since the previous switch with the largest exec times, and the corpus is
\* that generation
SwitchedProperly ==
    (gen_returned # None /\ gen_returned[1].switched) =>
        LET added == gen_returned[1].added
            current == GenIds(gm[1].current_gen)
        IN /\ current \subseteq GenIds(added)
           /\ Cardinality(current) = Min(Len(added), gen_size)
           /\ \A a \in DOMAIN added : \A k \in DOMAIN gm[1].current_gen :
                 added[a][1] \notin current => gm[1].current_gen[k][2] <= added[a][2]
           /\ DOMAIN gen_corpus = current
           /\ gen_returned[1].id \in DOMAIN gen_corpus

\* C39: for every interleaving of on_add and next from a non-empty corpus,
\* next never panics, and at a generation switch the new current generation
\* is the at most gen_size entries added since the previous switch with the
\* largest exec times, everything else is removed and the corpus is exactly
\* the new current generation.
C39_NextNeverPanics ==
    /\ ~gen_panic
    /\ SwitchedProperly

\* C40: the ordering of AtomicBasicBlock is a total order consistent with
\* its equality, for all ABBs, also with no end or several ends: cmp(a, b) is
\* Equal exactly when a == b, cmp(a, b) is the reverse of cmp(b, a), and cmp
\* never panics.
C40_AbbOrdConsistentWithEq ==
    verdict # None =>
        /\ ~verdict[1].cmp.panic
        /\ ~verdict[1].rev.panic
        /\ (verdict[1].cmp.ord = 0) <=> verdict[1].eq
        /\ verdict[1].cmp.ord = 0 - verdict[1].rev.ord

====
